---------------------------- MODULE Spec2Model ----------------------------
(***************************************************************************)
(* A model of the paper-review pipeline: the tools (agents/tools.py), the  *)
(* three agents (reader_agent.py, meta_reviewer_agent.py, critic_agent.py),*)
(* the orchestrator (orchestrator.py) and the task service                 *)
(* (mcp-server/mcp_server.py).                                             *)
(*                                                                         *)
(* Representation.                                                         *)
(*  - A text is what the code reads of a string: [len, novel, matches,      *)
(*    words, sentences, complex]: its length in characters, whether its    *)
(*    lower-cased form contains one of the five novelty words, how many    *)
(*    matches each of the three citation patterns finds, and its counts of *)
(*    words, sentences and words longer than 12 characters.  Python's      *)
(*    truth value of a text is len > 0.  Joining texts adds the counts.    *)
(*  - A score is counted in half points (Points(7) is the score 7), since  *)
(*    completeness_score is 2 + 1.5 * n.                                   *)
(*  - A task id f"review_{n}" is the pair <<"review_", n>>; a missing      *)
(*    task_id parameter (Python's None) is NoneId.                         *)
(*  - A Python dict is a function on its keys; None is the record None.    *)
(*  - The files a paper reference names are the environment fs.            *)
(*  - Message.timestamp (the wall clock) is left out.                      *)
(***************************************************************************)
EXTENDS Integers, Sequences, FiniteSets, TLC

\* ------------------------------------------------------------- bounds
\* how many submit_paper requests a behaviour makes
MaxTasks == 2
\* how many execute_review requests of known tasks a behaviour makes
MaxCalls == 2
\* how many execute_review coroutines are suspended at once.  The tools of
\* agents/tools.py are synchronous, so with them no execute_review suspends;
\* a registered coroutine tool makes it suspend.
MaxInFlight == 1
\* the largest citation count the environment's papers carry
MaxCitations == 40
\* the issues of a critique handed to _generate_final_recommendation
MaxIssues == 4
\* the execute_tool calls suspended in an async tool at one time
MaxPending == 1
\* the messages added to the history of the agent whose tools are called
MaxMessages == 1
\* the test cases of a fixture file
MaxTests == 2

\* ------------------------------------------------------------- values
None == [none |-> TRUE]
\* None where the code goes on to use the value as a string
NoneStr == "None"
NoneId == <<"None">>
EmptyDict == <<>>

Points(n) == 2 * n

Min(a, b) == IF a <= b THEN a ELSE b

\* dict.get(key, default)
Get(d, key, default) == IF key \in DOMAIN d THEN d[key] ELSE default

\* the six keys of the sections mapping, in declaration order (tools.py 51-58)
SectionOrder == <<"abstract", "introduction", "methodology", "results",
                  "conclusion", "references">>
SectionNames == {SectionOrder[i] : i \in 1..Len(SectionOrder)}

EmptyText == [len |-> 0, novel |-> FALSE, matches |-> <<0, 0, 0>>,
              words |-> 0, sentences |-> 0, complex |-> 0]

\* len([s for s in sections.values() if s])
NonEmptyCount(sections) == Cardinality({k \in DOMAIN sections : sections[k].len > 0})

\* the sum of one measure (a field, or a citation style's matches) over the
\* values of sections, from the i-th key on
RECURSIVE SumFrom(_, _, _)
SumFrom(sections, field, i) ==
    IF i > Len(SectionOrder) THEN 0
    ELSE (IF SectionOrder[i] \in DOMAIN sections
          THEN sections[SectionOrder[i]][field] ELSE 0)
         + SumFrom(sections, field, i + 1)

RECURSIVE SumMatchesFrom(_, _, _)
SumMatchesFrom(sections, style, i) ==
    IF i > Len(SectionOrder) THEN 0
    ELSE (IF SectionOrder[i] \in DOMAIN sections
          THEN sections[SectionOrder[i]].matches[style] ELSE 0)
         + SumMatchesFrom(sections, style, i + 1)

\* " ".join(str(v) for v in sections.values()): the values with one space
\* between neighbours
full_text_of(sections) ==
    LET joined == Cardinality(DOMAIN sections)
    IN [len |-> SumFrom(sections, "len", 1)
                + (IF joined > 0 THEN joined - 1 ELSE 0),
        novel |-> \E k \in DOMAIN sections : sections[k].novel,
        matches |-> [style \in 1..3 |-> SumMatchesFrom(sections, style, 1)],
        words |-> SumFrom(sections, "words", 1),
        sentences |-> SumFrom(sections, "sentences", 1),
        complex |-> SumFrom(sections, "complex", 1)]

\* json.dumps / json.loads: a dumped mapping loads back to itself; any other
\* text (the Reader's "Failed to load paper: ..." line) raises JSONDecodeError.
json_dumps(v) == [kind |-> "json", value |-> v]
PlainText(t) == [kind |-> "text", value |-> t]
json_loads(content) ==
    IF content.kind = "json" THEN [ok |-> TRUE, value |-> content.value]
    ELSE [ok |-> FALSE, value |-> EmptyDict]

Message(sender, content, tool_calls) ==
    [sender |-> sender, content |-> content, tool_calls |-> tool_calls]

\* ------------------------------------------------------------- tools
\* a[:n]
Truncate(t, n) == [t EXCEPT !.len = Min(t.len, n)]

\* round(a / b) for a counted in hundredths: the nearest whole number, in
\* hundredths
RoundDivWhole(a, b) == 100 * ((2 * a + 100 * b) \div (200 * b))

\* round(a / b, d) counted in units of 10^-d: RoundDiv(10^d * a, b).  Python
\* rounds a tie it can represent exactly to the even neighbour.
RoundDiv(a, b) ==
    LET q == a \div b
        r == a % b
    IN IF 2 * r > b THEN q + 1
       ELSE IF 2 * r = b /\ q % 2 = 1 THEN q + 1
       ELSE q

\* A file of the environment: whether the sample directory holds
\* <paper_id>.txt, what the path holds as a PDF ("absent", "corrupt", "ok"),
\* the PDF's page count, and the text: its length and what the section
\* patterns match in it.
load_sample_paper(files, paper_id) ==
    IF paper_id \in DOMAIN files /\ files[paper_id].sample
    THEN [success |-> TRUE, content |-> files[paper_id].text]
    ELSE [error |-> <<"Paper not found: ", paper_id>>]

extract_pdf_text(files, pdf_path) ==
    IF pdf_path \notin DOMAIN files \/ files[pdf_path].pdf = "absent"
    THEN [error |-> <<"PDF not found: ", pdf_path>>]
    ELSE IF files[pdf_path].pdf = "corrupt"
    THEN [error |-> <<"PDF extraction failed: ", pdf_path>>]
    ELSE [success |-> TRUE, text |-> files[pdf_path].text,
          pages |-> files[pdf_path].pages]

extract_sections(text) ==
    LET sections == [k \in SectionNames |-> Truncate(text.sections[k], 500)]
    IN [success |-> TRUE, sections |-> sections,
        section_count |-> NonEmptyCount(sections)]

\* matches[:10] per style, summed over the styles
extract_citations(text) ==
    LET kept == [i \in 1..3 |-> Min(10, text.matches[i])]
    IN [success |-> TRUE,
        citation_count |-> kept[1] + kept[2] + kept[3],
        citations_by_style |-> kept]

\* avg_sentence_length in hundredths, complex_word_ratio in thousandths
analyze_text_quality(text) ==
    LET avg_sentence_length ==
            IF text.sentences > 0 THEN RoundDiv(100 * text.words, text.sentences)
            ELSE 0
        complex_word_ratio ==
            IF text.words > 0 THEN RoundDiv(1000 * text.complex, text.words)
            ELSE 0
        metrics == [total_words |-> text.words,
                    total_sentences |-> text.sentences,
                    avg_sentence_length |-> avg_sentence_length,
                    complex_word_ratio |-> complex_word_ratio]
        issues ==
            (IF avg_sentence_length > 2000
             THEN <<"Sentences are too long (potential clarity issue)">>
             ELSE <<>>)
            \o (IF complex_word_ratio > 150
                THEN <<"Too many complex words (potential readability issue)">>
                ELSE <<>>)
    IN [success |-> TRUE, metrics |-> metrics, issues |-> issues]

\* disk_ok: whether the results directory can be written
save_review_result(filename, content, disk_ok) ==
    IF disk_ok
    THEN [success |-> TRUE,
          filepath |-> <<"paper_reviewer/data/results/", filename>>]
    ELSE [error |-> <<"File save failed: ", filename>>]

\* ------------------------------------------------------------- agents
ReaderTools == {"extract_pdf", "extract_sections", "load_sample_paper"}
MetaReviewerTools == {"extract_citations", "save_review"}
CriticTools == {"analyze_text_quality", "extract_citations"}

\* a tool that raises the fault e instead of returning
Raised(e) == [raised |-> e]

\* execute_tool without its except clause (lines 47-48)
execute_tool_uncaught(tools, tool_name, result) ==
    IF tool_name \notin tools
    THEN [error |-> <<"Tool '", tool_name, "' not found">>]
    ELSE result

\* BaseAgent.execute_tool: result is what the registered tool returns, or
\* Raised(e) when it raises
execute_tool(tools, tool_name, result) ==
    IF tool_name \notin tools
    THEN [error |-> <<"Tool '", tool_name, "' not found">>]
    ELSE IF "raised" \in DOMAIN result THEN [error |-> result.raised]
    ELSE result

\* ReaderAgent._generate_summary: the summary's source, the characters taken
\* from it and whether "..." is appended
generate_summary(text, sections_result) ==
    LET abstract == Get(Get(sections_result, "sections", EmptyDict),
                        "abstract", EmptyText)
    IN IF abstract.len > 0
       THEN [source |-> "abstract", chars |-> Min(abstract.len, 300),
             ellipsis |-> abstract.len > 300]
       ELSE [source |-> "text", chars |-> Min(text.len, 300),
             ellipsis |-> TRUE]

\* ReaderAgent.process after the paper's text is resolved
ReaderSuccess(paper_path, text, first_call) ==
    LET sections_result ==
            execute_tool(ReaderTools, "extract_sections", extract_sections(text))
        tool_calls ==
            <<first_call,
              [tool |-> "extract_sections",
               input |-> [text_length |-> text.len],
               output |-> <<"Identified ",
                            Get(sections_result, "section_count", 0),
                            " sections">>]>>
        response_content ==
            [status |-> "success",
             paper_id |-> paper_path,
             summary |-> generate_summary(text, sections_result),
             sections |-> Get(sections_result, "sections", EmptyDict),
             text_length |-> text.len,
             key_insights |->
                 <<<<"Paper structure identified and parsed">>,
                   <<"Extracted ", Get(sections_result, "section_count", 0),
                     " major sections">>,
                   <<"Ready for detailed review by specialized agents">>>>]
    IN Message("Reader", json_dumps(response_content), tool_calls)

\* ReaderAgent.process: the Message it returns (and appends to its history)
ReaderProcess(files, paper_path) ==
    LET load_result ==
            execute_tool(ReaderTools, "load_sample_paper",
                         load_sample_paper(files, paper_path))
        extract_result ==
            execute_tool(ReaderTools, "extract_pdf",
                         extract_pdf_text(files, paper_path))
    IN IF Get(load_result, "success", FALSE)
       THEN ReaderSuccess(paper_path, load_result.content,
                [tool |-> "load_sample_paper",
                 input |-> [paper_id |-> paper_path],
                 output |-> <<"Loaded sample paper: ", paper_path>>])
       ELSE IF ~ Get(extract_result, "success", FALSE)
       THEN Message("Reader",
                PlainText(<<"Failed to load paper: ",
                            Get(extract_result, "error", "Unknown error")>>),
                <<>>)
       ELSE ReaderSuccess(paper_path, extract_result.text,
                [tool |-> "extract_pdf",
                 input |-> [pdf_path |-> paper_path],
                 output |-> <<"Extracted ", extract_result.pages,
                              " pages from PDF">>])

\* 3 + (citation_count // 5), without min(10, ...)
citation_score_uncapped(citation_count) == Points(3 + (citation_count \div 5))

\* min(10, citation_count // 5), without the base of 3 points
citation_score_without_base(citation_count) ==
    Min(Points(10), Points(citation_count \div 5))

\* min(10, 3 + (citation_count // 5)), in half points
citation_score(citation_count) ==
    Min(Points(10), Points(3 + (citation_count \div 5)))

\* the completeness score with the product cut to a whole number of points
completeness_score_floored(sections_present) ==
    Min(Points(10), Points(2 + ((3 * sections_present) \div 2)))

\* min(10, 2 + (sections_present * 1.5)), in half points: 1.5 points are 3
completeness_score(sections_present) ==
    Min(Points(10), Points(2) + sections_present * 3)

\* MetaReviewerAgent._assess_quality, scores in half points
assess_quality(sections, citations, reader_output) ==
    LET abstract == Get(sections, "abstract", EmptyText)
        has_novel_language == abstract.novel
        novelty_score == IF has_novel_language THEN Points(7) ELSE Points(5)
        methodology == Get(sections, "methodology", EmptyText)
        has_methodology == methodology.len > 100
        methodology_score == IF has_methodology THEN Points(8) ELSE Points(4)
        citation_count == Get(citations, "citation_count", 0)
        sections_present == NonEmptyCount(sections)
        \* 4 * avg_score
        total == novelty_score + methodology_score
                 + citation_score(citation_count)
                 + completeness_score(sections_present)
        overall_quality ==
            IF total >= 4 * Points(8) THEN "EXCELLENT"
            ELSE IF total >= 4 * Points(6) THEN "GOOD"
            ELSE IF total >= 4 * Points(4) THEN "FAIR"
            ELSE "POOR"
    IN [novelty_score |-> novelty_score,
        methodology_score |-> methodology_score,
        citation_score |-> citation_score(citation_count),
        completeness_score |-> completeness_score(sections_present),
        overall_quality |-> overall_quality,
        \* round(avg_score, 2), in hundredths of a point
        average_score |-> RoundDiv(100 * total, 4 * Points(1)),
        assessment_details |->
            [has_clear_methodology |-> has_methodology,
             demonstrates_novelty |-> has_novel_language,
             adequate_citations |-> citation_count >= 10,
             sections_completeness |-> <<sections_present, "/6 major sections">>]]

\* MetaReviewerAgent.process delivering the assessment only when it was saved
MetaReviewerProcessSavedOnly(reader_output, disk_ok) ==
    LET sections == Get(reader_output, "sections", EmptyDict)
        full_text == full_text_of(sections)
        citations_result ==
            execute_tool(MetaReviewerTools, "extract_citations",
                         extract_citations(full_text))
        assessment == assess_quality(sections, citations_result, reader_output)
        save_result ==
            execute_tool(MetaReviewerTools, "save_review",
                save_review_result(<<Get(reader_output, "paper_id", "paper"),
                                     "_assessment.json">>,
                                   assessment, disk_ok))
        tool_calls ==
            <<[tool |-> "extract_citations",
               input |-> [text_length |-> full_text.len],
               output |-> <<"Found ", Get(citations_result, "citation_count", 0),
                            " citations">>],
              [tool |-> "save_review",
               input |-> [filename |-> <<Get(reader_output, "paper_id", NoneStr),
                                         "_assessment.json">>],
               output |-> <<"Saved to ",
                            Get(save_result, "filepath", <<"unknown">>)>>]>>
        response_content ==
            [status |-> "success",
             paper_id |-> Get(reader_output, "paper_id", NoneStr),
             assessment |-> IF "error" \in DOMAIN save_result THEN EmptyDict
                            ELSE assessment,
             citations_found |-> Get(citations_result, "citation_count", 0),
             novelty_score |-> Get(assessment, "novelty_score", 0),
             methodology_score |-> Get(assessment, "methodology_score", 0),
             overall_quality |-> Get(assessment, "overall_quality", "UNKNOWN")]
    IN Message("MetaReviewer", json_dumps(response_content), tool_calls)

\* MetaReviewerAgent.process: the Message it returns (and appends)
MetaReviewerProcess(reader_output, disk_ok) ==
    LET sections == Get(reader_output, "sections", EmptyDict)
        full_text == full_text_of(sections)
        citations_result ==
            execute_tool(MetaReviewerTools, "extract_citations",
                         extract_citations(full_text))
        assessment == assess_quality(sections, citations_result, reader_output)
        save_result ==
            execute_tool(MetaReviewerTools, "save_review",
                save_review_result(<<Get(reader_output, "paper_id", "paper"),
                                     "_assessment.json">>,
                                   assessment, disk_ok))
        tool_calls ==
            <<[tool |-> "extract_citations",
               input |-> [text_length |-> full_text.len],
               output |-> <<"Found ", Get(citations_result, "citation_count", 0),
                            " citations">>],
              [tool |-> "save_review",
               input |-> [filename |-> <<Get(reader_output, "paper_id", NoneStr),
                                         "_assessment.json">>],
               output |-> <<"Saved to ",
                            Get(save_result, "filepath", <<"unknown">>)>>]>>
        response_content ==
            [status |-> "success",
             paper_id |-> Get(reader_output, "paper_id", NoneStr),
             assessment |-> assessment,
             citations_found |-> Get(citations_result, "citation_count", 0),
             novelty_score |-> Get(assessment, "novelty_score", 0),
             methodology_score |-> Get(assessment, "methodology_score", 0),
             overall_quality |-> Get(assessment, "overall_quality", "UNKNOWN")]
    IN Message("MetaReviewer", json_dumps(response_content), tool_calls)

\* len([i for i in issues if i.get("severity") == severity])
SeverityCount(issues, severity) ==
    Len(SelectSeq(issues, LAMBDA i : i.severity = severity))

\* CriticAgent._generate_recommendations
generate_recommendations(issues) ==
    LET critical_count == SeverityCount(issues, "CRITICAL")
        major_count == SeverityCount(issues, "MAJOR")
    IN (IF critical_count > 0
        THEN <<[priority |-> 1,
                recommendation |-> <<"Address ", critical_count,
                    " critical issues before resubmission">>]>>
        ELSE <<>>)
       \o (IF major_count > 0
           THEN <<[priority |-> 2,
                   recommendation |-> <<"Resolve ", major_count,
                       " major issues to improve paper quality">>]>>
           ELSE <<>>)
       \o <<[priority |-> 3,
             recommendation |->
                 <<"Consider reviewer feedback and minor improvements">>]>>

\* CriticAgent._generate_summary
generate_critique_summary(issues) ==
    LET critical == SeverityCount(issues, "CRITICAL")
        major == SeverityCount(issues, "MAJOR")
        minor == SeverityCount(issues, "MINOR")
        parts == (IF critical > 0 THEN <<<<critical, " critical">>>> ELSE <<>>)
                 \o (IF major > 0 THEN <<<<major, " major">>>> ELSE <<>>)
                 \o (IF minor > 0 THEN <<<<minor, " minor">>>> ELSE <<>>)
    IN IF issues = <<>> THEN <<"No significant issues identified.">>
       ELSE <<"Identified ", Len(issues), " total issues: ", parts, ".">>

\* _generate_critique with len(abstract) <= 50 as its abstract check
generate_critique_abstract_at_most(sections, quality_result, citations_result, meta_assessment, reader_output) ==
    LET quality_issues == Get(quality_result, "issues", <<>>)
        clarity == [i \in 1..Len(quality_issues) |->
                       [category |-> "CLARITY",
                        issue |-> <<quality_issues[i]>>,
                        severity |-> "MAJOR"]]
        no_methodology ==
            IF Get(sections, "methodology", EmptyText).len = 0
            THEN <<[category |-> "STRUCTURE",
                    issue |-> <<"Methodology section is missing or unclear">>,
                    severity |-> "CRITICAL",
                    recommendation |->
                        <<"Add detailed methodology description">>]>>
            ELSE <<>>
        no_conclusion ==
            IF Get(sections, "conclusion", EmptyText).len = 0
            THEN <<[category |-> "STRUCTURE",
                    issue |-> <<"Conclusion section is missing">>,
                    severity |-> "CRITICAL",
                    recommendation |->
                        <<"Add conclusion summarizing findings and future work">>]>>
            ELSE <<>>
        citation_count == Get(citations_result, "citation_count", 0)
        few_citations ==
            IF citation_count < 10
            THEN <<[category |-> "REFERENCES",
                    issue |-> <<"Insufficient citations (", citation_count,
                                " found)">>,
                    severity |-> "MAJOR",
                    recommendation |->
                        <<"Add more relevant references to support claims">>]>>
            ELSE <<>>
        metrics == Get(quality_result, "metrics", EmptyDict)
        long_sentences ==
            IF Get(metrics, "avg_sentence_length", 0) > 2500
            THEN <<[category |-> "READABILITY",
                    issue |-> <<"Sentences are too long on average">>,
                    severity |-> "MINOR",
                    recommendation |->
                        <<"Break longer sentences into shorter, clearer ones">>]>>
            ELSE <<>>
        abstract == Get(sections, "abstract", EmptyText)
        brief_abstract ==
            IF abstract.len <= 50
            THEN <<[category |-> "CONTENT",
                    issue |-> <<"Abstract is too brief">>,
                    severity |-> "MAJOR",
                    recommendation |->
                        <<"Expand abstract to properly summarize the paper">>]>>
            ELSE <<>>
        poor_quality ==
            IF Get(meta_assessment, "overall_quality", NoneStr) = "POOR"
            THEN <<[category |-> "OVERALL",
                    issue |-> <<"Overall paper quality is poor">>,
                    severity |-> "CRITICAL",
                    recommendation |->
                        <<"Major revisions needed across all sections">>]>>
            ELSE <<>>
        issues == clarity \o no_methodology \o no_conclusion \o few_citations
                  \o long_sentences \o brief_abstract \o poor_quality
    IN [issue_count |-> Len(issues),
        issues |-> issues,
        recommendations |-> generate_recommendations(issues),
        summary |-> generate_critique_summary(issues)]

\* _generate_critique without its check of the overall quality (lines 152-159)
generate_critique_without_overall(sections, quality_result, citations_result, meta_assessment, reader_output) ==
    LET quality_issues == Get(quality_result, "issues", <<>>)
        clarity == [i \in 1..Len(quality_issues) |->
                       [category |-> "CLARITY",
                        issue |-> <<quality_issues[i]>>,
                        severity |-> "MAJOR"]]
        no_methodology ==
            IF Get(sections, "methodology", EmptyText).len = 0
            THEN <<[category |-> "STRUCTURE",
                    issue |-> <<"Methodology section is missing or unclear">>,
                    severity |-> "CRITICAL",
                    recommendation |->
                        <<"Add detailed methodology description">>]>>
            ELSE <<>>
        no_conclusion ==
            IF Get(sections, "conclusion", EmptyText).len = 0
            THEN <<[category |-> "STRUCTURE",
                    issue |-> <<"Conclusion section is missing">>,
                    severity |-> "CRITICAL",
                    recommendation |->
                        <<"Add conclusion summarizing findings and future work">>]>>
            ELSE <<>>
        citation_count == Get(citations_result, "citation_count", 0)
        few_citations ==
            IF citation_count < 10
            THEN <<[category |-> "REFERENCES",
                    issue |-> <<"Insufficient citations (", citation_count,
                                " found)">>,
                    severity |-> "MAJOR",
                    recommendation |->
                        <<"Add more relevant references to support claims">>]>>
            ELSE <<>>
        metrics == Get(quality_result, "metrics", EmptyDict)
        long_sentences ==
            IF Get(metrics, "avg_sentence_length", 0) > 2500
            THEN <<[category |-> "READABILITY",
                    issue |-> <<"Sentences are too long on average">>,
                    severity |-> "MINOR",
                    recommendation |->
                        <<"Break longer sentences into shorter, clearer ones">>]>>
            ELSE <<>>
        abstract == Get(sections, "abstract", EmptyText)
        brief_abstract ==
            IF abstract.len < 50
            THEN <<[category |-> "CONTENT",
                    issue |-> <<"Abstract is too brief">>,
                    severity |-> "MAJOR",
                    recommendation |->
                        <<"Expand abstract to properly summarize the paper">>]>>
            ELSE <<>>
        poor_quality ==
            IF FALSE
            THEN <<[category |-> "OVERALL",
                    issue |-> <<"Overall paper quality is poor">>,
                    severity |-> "CRITICAL",
                    recommendation |->
                        <<"Major revisions needed across all sections">>]>>
            ELSE <<>>
        issues == clarity \o no_methodology \o no_conclusion \o few_citations
                  \o long_sentences \o brief_abstract \o poor_quality
    IN [issue_count |-> Len(issues),
        issues |-> issues,
        recommendations |-> generate_recommendations(issues),
        summary |-> generate_critique_summary(issues)]

\* CriticAgent._generate_critique
generate_critique(sections, quality_result, citations_result, meta_assessment, reader_output) ==
    LET quality_issues == Get(quality_result, "issues", <<>>)
        clarity == [i \in 1..Len(quality_issues) |->
                       [category |-> "CLARITY",
                        issue |-> <<quality_issues[i]>>,
                        severity |-> "MAJOR"]]
        no_methodology ==
            IF Get(sections, "methodology", EmptyText).len = 0
            THEN <<[category |-> "STRUCTURE",
                    issue |-> <<"Methodology section is missing or unclear">>,
                    severity |-> "CRITICAL",
                    recommendation |->
                        <<"Add detailed methodology description">>]>>
            ELSE <<>>
        no_conclusion ==
            IF Get(sections, "conclusion", EmptyText).len = 0
            THEN <<[category |-> "STRUCTURE",
                    issue |-> <<"Conclusion section is missing">>,
                    severity |-> "CRITICAL",
                    recommendation |->
                        <<"Add conclusion summarizing findings and future work">>]>>
            ELSE <<>>
        citation_count == Get(citations_result, "citation_count", 0)
        few_citations ==
            IF citation_count < 10
            THEN <<[category |-> "REFERENCES",
                    issue |-> <<"Insufficient citations (", citation_count,
                                " found)">>,
                    severity |-> "MAJOR",
                    recommendation |->
                        <<"Add more relevant references to support claims">>]>>
            ELSE <<>>
        metrics == Get(quality_result, "metrics", EmptyDict)
        long_sentences ==
            IF Get(metrics, "avg_sentence_length", 0) > 2500
            THEN <<[category |-> "READABILITY",
                    issue |-> <<"Sentences are too long on average">>,
                    severity |-> "MINOR",
                    recommendation |->
                        <<"Break longer sentences into shorter, clearer ones">>]>>
            ELSE <<>>
        abstract == Get(sections, "abstract", EmptyText)
        brief_abstract ==
            IF abstract.len < 50
            THEN <<[category |-> "CONTENT",
                    issue |-> <<"Abstract is too brief">>,
                    severity |-> "MAJOR",
                    recommendation |->
                        <<"Expand abstract to properly summarize the paper">>]>>
            ELSE <<>>
        poor_quality ==
            IF Get(meta_assessment, "overall_quality", NoneStr) = "POOR"
            THEN <<[category |-> "OVERALL",
                    issue |-> <<"Overall paper quality is poor">>,
                    severity |-> "CRITICAL",
                    recommendation |->
                        <<"Major revisions needed across all sections">>]>>
            ELSE <<>>
        issues == clarity \o no_methodology \o no_conclusion \o few_citations
                  \o long_sentences \o brief_abstract \o poor_quality
    IN [issue_count |-> Len(issues),
        issues |-> issues,
        recommendations |-> generate_recommendations(issues),
        summary |-> generate_critique_summary(issues)]

\* CriticAgent.process: the Message it returns (and appends)
CriticProcess(reader_output, meta_assessment) ==
    LET sections == Get(reader_output, "sections", EmptyDict)
        full_text == full_text_of(sections)
        quality_result ==
            execute_tool(CriticTools, "analyze_text_quality",
                         analyze_text_quality(full_text))
        citations_result ==
            execute_tool(CriticTools, "extract_citations",
                         extract_citations(full_text))
        tool_calls ==
            <<[tool |-> "analyze_text_quality",
               input |-> [text_length |-> full_text.len],
               output |-> <<"Identified ",
                            Len(Get(quality_result, "issues", <<>>)),
                            " quality issues">>],
              [tool |-> "extract_citations",
               input |-> [text_length |-> full_text.len],
               output |-> <<"Analyzed ",
                            Get(citations_result, "citation_count", 0),
                            " citations">>]>>
        critique == generate_critique(sections, quality_result, citations_result,
                                      meta_assessment, reader_output)
        issues == Get(critique, "issues", <<>>)
        response_content ==
            [status |-> "success",
             paper_id |-> Get(reader_output, "paper_id", NoneStr),
             critique |-> critique,
             severity_levels |->
                 [critical |-> SeverityCount(issues, "CRITICAL"),
                  major |-> SeverityCount(issues, "MAJOR"),
                  minor |-> SeverityCount(issues, "MINOR")]]
    IN Message("Critic", json_dumps(response_content), tool_calls)

\* ------------------------------------------------------------- orchestrator
\* _generate_final_recommendation without its last branch (lines 142-143)
generate_final_recommendation_without_else(assessment, critique) ==
    LET overall_quality == Get(assessment, "overall_quality", "UNKNOWN")
        critical_issues == Get(critique, "issues", <<>>)
        critical_count == SeverityCount(critical_issues, "CRITICAL")
    IN IF overall_quality = "EXCELLENT" /\ critical_count = 0 THEN "ACCEPT"
       ELSE IF overall_quality = "GOOD" /\ critical_count = 0
       THEN "ACCEPT_WITH_MINOR_REVISIONS"
       ELSE IF critical_count > 0 THEN "MAJOR_REVISIONS_REQUIRED"
       ELSE NoneStr

\* _generate_final_recommendation with the GOOD row ignoring the critical
\* issues
generate_final_recommendation_lenient(assessment, critique) ==
    LET overall_quality == Get(assessment, "overall_quality", "UNKNOWN")
        critical_issues == Get(critique, "issues", <<>>)
        critical_count == SeverityCount(critical_issues, "CRITICAL")
    IN IF overall_quality = "EXCELLENT" /\ critical_count = 0 THEN "ACCEPT"
       ELSE IF overall_quality = "GOOD" THEN "ACCEPT_WITH_MINOR_REVISIONS"
       ELSE IF critical_count > 0 THEN "MAJOR_REVISIONS_REQUIRED"
       ELSE "REJECT"

\* PaperReviewOrchestrator._generate_final_recommendation
generate_final_recommendation(assessment, critique) ==
    LET overall_quality == Get(assessment, "overall_quality", "UNKNOWN")
        critical_issues == Get(critique, "issues", <<>>)
        critical_count == SeverityCount(critical_issues, "CRITICAL")
    IN IF overall_quality = "EXCELLENT" /\ critical_count = 0 THEN "ACCEPT"
       ELSE IF overall_quality = "GOOD" /\ critical_count = 0
       THEN "ACCEPT_WITH_MINOR_REVISIONS"
       ELSE IF critical_count > 0 THEN "MAJOR_REVISIONS_REQUIRED"
       ELSE "REJECT"

\* the issues of one severity, in order
RECURSIVE OfSeverity(_, _)
OfSeverity(issues, severity) ==
    IF issues = <<>> THEN <<>>
    ELSE (IF Head(issues).severity = severity THEN <<Head(issues)>> ELSE <<>>)
         \o OfSeverity(Tail(issues), severity)

\* [i.get("recommendation", "") for i in issues], without the cut
AllRecommendations(issues) ==
    [i \in 1..Len(issues) |-> Get(issues[i], "recommendation", <<"">>)]

\* [i.get("recommendation", "") for i in issues[:3]]
FirstRecommendations(issues) ==
    [i \in 1..Min(3, Len(issues)) |-> Get(issues[i], "recommendation", <<"">>)]

\* PaperReviewOrchestrator._generate_next_steps
generate_next_steps(assessment, critique) ==
    LET critical_issues == OfSeverity(Get(critique, "issues", <<>>), "CRITICAL")
        major_issues == OfSeverity(Get(critique, "issues", <<>>), "MAJOR")
        steps ==
            (IF critical_issues # <<>>
             THEN <<[priority |-> "HIGH",
                     action |-> <<"Address ", Len(critical_issues),
                                  " critical issues">>,
                     details |-> FirstRecommendations(critical_issues)]>>
             ELSE <<>>)
            \o (IF major_issues # <<>>
                THEN <<[priority |-> "MEDIUM",
                        action |-> <<"Resolve ", Len(major_issues),
                                     " major issues">>,
                        details |-> FirstRecommendations(major_issues)]>>
                ELSE <<>>)
            \o (IF Get(assessment, "overall_quality", NoneStr)
                      \in {"EXCELLENT", "GOOD"}
                THEN <<[priority |-> "LOW",
                        action |-> <<"Consider formatting and presentation improvements">>,
                        details |-> <<<<"Polish figures and tables">>,
                                      <<"Proofread for typos">>>>]>>
                ELSE <<>>)
    IN IF steps # <<>> THEN steps
       ELSE <<[priority |-> "LOW",
               action |-> <<"Paper is ready for submission">>]>>

\* PaperReviewOrchestrator._compile_review
compile_review(reader_output, assessment, critique) ==
    [paper_id |-> Get(reader_output, "paper_id", NoneStr),
     review_status |-> "COMPLETE",
     reader_extraction |->
         [summary |-> Get(reader_output, "summary", <<"">>),
          text_length |-> Get(reader_output, "text_length", 0),
          sections_identified |->
              Cardinality(DOMAIN Get(reader_output, "sections", EmptyDict)),
          key_insights |-> Get(reader_output, "key_insights", <<>>)],
     quality_assessment |-> assessment,
     critique |-> critique,
     overall_recommendation |-> generate_final_recommendation(assessment, critique),
     next_steps |-> generate_next_steps(assessment, critique)]

\* ------------------------------------------------------------- environment
Txt(len, novel, matches, words, sentences, complex) ==
    [len |-> len, novel |-> novel, matches |-> matches, words |-> words,
     sentences |-> sentences, complex |-> complex]

\* savable: whether paper_reviewer/data/results/<ref>_assessment.json can be
\* written (a reference with a directory part names a directory that is not
\* there)
File(sample, pdf, pages, savable, len, sections) ==
    [sample |-> sample, pdf |-> pdf, pages |-> pages, savable |-> savable,
     text |-> [len |-> len, sections |-> sections]]

NoSections == [k \in SectionNames |-> EmptyText]

\* the reference the callers submit
PaperRefs == {"sample_paper_1"}

CompleteSections ==
    [abstract |-> Txt(400, TRUE, <<0, 0, 0>>, 60, 4, 2),
     introduction |-> Txt(500, FALSE, <<4, 2, 0>>, 75, 5, 3),
     methodology |-> Txt(500, FALSE, <<2, 0, 0>>, 70, 5, 4),
     results |-> Txt(500, FALSE, <<0, 0, 1>>, 72, 6, 2),
     conclusion |-> Txt(300, FALSE, <<0, 0, 0>>, 45, 3, 1),
     references |-> Txt(500, FALSE, <<12, 0, 0>>, 60, 12, 0)]

\* the environments of the task service's runs: the reference names a
\* complete sample paper, or it names nothing
ServiceLibraries ==
    {[r \in PaperRefs |-> File(TRUE, "absent", 0, TRUE, 3000, CompleteSections)],
     [r \in PaperRefs |-> File(FALSE, "absent", 0, TRUE, 0, NoSections)]}

\* the texts a section pattern may match in a paper: none, and texts on both
\* sides of each length the code compares with (50, 100, 300)
AbstractTexts ==
    {EmptyText,
     Txt(49, FALSE, <<0, 0, 0>>, 8, 1, 0),
     Txt(50, TRUE, <<0, 0, 0>>, 8, 1, 0),
     Txt(300, FALSE, <<0, 0, 0>>, 45, 3, 1),
     Txt(301, TRUE, <<0, 0, 0>>, 45, 3, 1)}
MethodologyTexts ==
    {EmptyText,
     Txt(100, FALSE, <<1, 0, 0>>, 15, 1, 1),
     Txt(101, FALSE, <<1, 0, 0>>, 15, 1, 1)}
IntroductionTexts == {EmptyText, Txt(500, FALSE, <<3, 2, 0>>, 80, 2, 14)}
ResultsTexts == {EmptyText, Txt(400, FALSE, <<0, 0, 1>>, 60, 5, 2)}
ConclusionTexts == {EmptyText, Txt(200, FALSE, <<0, 0, 0>>, 30, 2, 0)}
ReferencesTexts ==
    {EmptyText,
     Txt(500, FALSE, <<12, 0, 0>>, 60, 12, 0),
     Txt(600, FALSE, <<MaxCitations, 12, 12>>, 90, 30, 0)}

SectionMaps ==
    {[abstract |-> a, introduction |-> i, methodology |-> m, results |-> r,
      conclusion |-> c, references |-> f] :
        a \in AbstractTexts, i \in IntroductionTexts, m \in MethodologyTexts,
        r \in ResultsTexts, c \in ConclusionTexts, f \in ReferencesTexts}

\* the files of the reviewed papers: a sample file or a PDF with any of the
\* section maps, and the references that resolve to nothing
ResolvedFiles ==
    {File(kind = "sample", IF kind = "sample" THEN "absent" ELSE "ok",
          IF kind = "sample" THEN 0 ELSE 3, savable,
          IF sections["abstract"].len = 0 THEN 200 ELSE 3000, sections) :
        kind \in {"sample", "pdf"}, savable \in BOOLEAN, sections \in SectionMaps}
UnresolvedFiles ==
    {File(FALSE, pdf, 0, savable, 0, NoSections) :
        pdf \in {"absent", "corrupt"}, savable \in BOOLEAN}

ReviewLibraries ==
    {[r \in PaperRefs |-> f] : f \in ResolvedFiles \cup UnresolvedFiles}

\* ------------------------------------------------------------- state
VARIABLES
    fs,                    \* the environment's files, by paper reference
    review_counter,        \* PaperReviewerMCPServer.review_counter
    active_reviews,        \* PaperReviewerMCPServer.active_reviews
    workflow_history,      \* PaperReviewOrchestrator.workflow_history
    conversation_history,  \* each agent's BaseAgent.conversation_history
    calls,                 \* the execute_review coroutines started so far
    issued,                \* the task ids submit_paper has returned, in order
    probe                  \* a direct call of _assess_quality: arguments, result

vars == <<fs, review_counter, active_reviews, workflow_history,
          conversation_history, calls, issued, probe>>

\* what the task service and the orchestrator own
service == <<review_counter, active_reviews, workflow_history,
             conversation_history>>

AgentNames == {"Reader", "MetaReviewer", "Critic"}

\* d[key] = value
DictSet(d, key, value) ==
    [k \in DOMAIN d \cup {key} |-> IF k = key THEN value ELSE d[k]]

\* "review_{self.review_counter}", the text without its f prefix
task_id_unformatted(counter) == <<"review_", "{self.review_counter}">>

\* f"review_{self.review_counter}"
task_id_of(counter) == <<"review_", counter>>

\* the task submit_paper stores
QueuedTask(paper_path) ==
    [status |-> "QUEUED", paper_path |-> paper_path, result |-> None]

\* Where review_paper raises: at its first print of the check mark (line 47),
\* which fails when the output stream cannot encode it.  Reader.process has
\* returned by then and has appended its Message; the workflow history has
\* not been appended to yet.  Whether the stream can encode is the
\* environment's choice at each review.
Outcomes == {"ok", "raise"}

\* str(e) of that fault
FaultText == <<"UnicodeEncodeError", "can't encode character '\\u2713'">>

\* PaperReviewerMCPServer, PaperReviewOrchestrator and the agents as
\* constructed
Constructed ==
    /\ review_counter = 0
    /\ active_reviews = EmptyDict
    /\ workflow_history = <<>>
    /\ conversation_history = [a \in AgentNames |-> <<>>]
    /\ calls = <<>>
    /\ issued = <<>>

Init ==
    /\ fs \in ServiceLibraries
    /\ probe = None
    /\ Constructed

\* ------------------------------------------------------------- task service
\* Each handler is an action (what it does to the state) and, where it
\* answers without suspending, a value (what it returns from that state).

submit_paper(paper_path) ==
    LET counter == review_counter + 1
        task_id == task_id_of(counter)
    IN /\ review_counter' = counter
       /\ active_reviews' = DictSet(active_reviews, task_id, QueuedTask(paper_path))
       /\ issued' = Append(issued, task_id)
       /\ UNCHANGED <<fs, probe, workflow_history, conversation_history, calls>>

\* what submit_paper returns
submit_paper_returns(paper_path) ==
    [task_id |-> task_id_of(review_counter + 1),
     status |-> "QUEUED",
     message |-> "Paper submitted for review",
     paper_path |-> paper_path]

NotFound(task_id) == [error |-> <<"Task ", task_id, " not found">>]

\* what get_review_status returns
get_review_status_returns(task_id) ==
    IF task_id \notin DOMAIN active_reviews THEN NotFound(task_id)
    ELSE LET task == active_reviews[task_id]
         IN [task_id |-> task_id,
             status |-> Get(task, "status", NoneStr),
             paper_path |-> Get(task, "paper_path", NoneStr),
             result |-> Get(task, "result", None)]

\* get_review_status reading active_reviews.setdefault(task_id, {}) in place
\* of its test of the id (lines 50-51)
get_review_status_setdefault(task_id) ==
    /\ active_reviews' = DictSet(active_reviews, task_id,
                                 Get(active_reviews, task_id, EmptyDict))
    /\ UNCHANGED <<fs, probe, review_counter, workflow_history,
                   conversation_history, calls, issued>>

\* get_review_status assigns to nothing
get_review_status(task_id) == UNCHANGED vars

\* PaperReviewOrchestrator.get_workflow_report
get_workflow_report ==
    [total_steps |-> Len(workflow_history),
     agents_involved |-> [i \in 1..Len(workflow_history) |->
                             workflow_history[i].agent],
     workflow |-> [i \in 1..Len(workflow_history) |->
                      [step |-> workflow_history[i].step,
                       agent |-> workflow_history[i].agent,
                       tool_calls |-> workflow_history[i].message.tool_calls]]]

\* PaperReviewerMCPServer._get_agents_log
get_agents_log ==
    [reader_agent |-> [name |-> "Reader",
                       role |-> "Content Extractor & Summarizer",
                       history_length |-> Len(conversation_history["Reader"])],
     meta_reviewer_agent |->
                      [name |-> "MetaReviewer",
                       role |-> "Quality & Contribution Assessor",
                       history_length |-> Len(conversation_history["MetaReviewer"])],
     critic_agent |-> [name |-> "Critic",
                       role |-> "Weakness & Issue Identifier",
                       history_length |-> Len(conversation_history["Critic"])]]

\* get_workflow_trace without its test of the status (lines 101-102)
get_workflow_trace_unguarded(task_id) ==
    IF task_id \notin DOMAIN active_reviews THEN NotFound(task_id)
    ELSE [task_id |-> task_id,
          workflow |-> get_workflow_report,
          agents_log |-> get_agents_log]

\* what get_workflow_trace returns
get_workflow_trace_returns(task_id) ==
    IF task_id \notin DOMAIN active_reviews THEN NotFound(task_id)
    ELSE IF Get(active_reviews[task_id], "status", NoneStr) # "COMPLETED"
    THEN [error |-> <<"Task ", task_id, " is not completed">>]
    ELSE [task_id |-> task_id,
          workflow |-> get_workflow_report,
          agents_log |-> get_agents_log]

get_workflow_trace(task_id) == UNCHANGED vars

\* execute_review with active_reviews.setdefault(task_id, {}) in place of its
\* test of the id (lines 64-65)
execute_review_unchecked(task_id) ==
    /\ active_reviews' = DictSet(active_reviews, task_id,
           DictSet(Get(active_reviews, task_id, EmptyDict), "status", "PROCESSING"))
    /\ calls' = Append(calls,
           [task_id |-> task_id,
            paper_path |-> Get(Get(active_reviews, task_id, EmptyDict),
                               "paper_path", NoneStr),
            pc |-> "reader",
            reader_output |-> EmptyDict,
            assessment |-> EmptyDict,
            returned |-> None])
    /\ UNCHANGED <<fs, probe, review_counter, workflow_history,
                   conversation_history, issued>>

\* execute_review answering for a task that is COMPLETED or FAILED without
\* running the review again
execute_review_guarded(task_id) ==
    IF task_id \notin DOMAIN active_reviews
       \/ Get(active_reviews[task_id], "status", NoneStr) \in {"COMPLETED", "FAILED"}
    THEN UNCHANGED vars
    ELSE /\ active_reviews' =
               [active_reviews EXCEPT ![task_id] = DictSet(@, "status", "PROCESSING")]
         /\ calls' = Append(calls,
               [task_id |-> task_id,
                paper_path |-> Get(active_reviews[task_id], "paper_path", NoneStr),
                pc |-> "reader",
                reader_output |-> EmptyDict,
                assessment |-> EmptyDict,
                returned |-> None])
         /\ UNCHANGED <<fs, probe, review_counter, workflow_history,
                        conversation_history, issued>>

\* execute_review up to its first suspension, inside the Reader's first tool
\* call: the task is PROCESSING and the coroutine holds task_id and
\* paper_path.  For an unknown id it returns NotFound(task_id) at once.
execute_review(task_id) ==
    IF task_id \notin DOMAIN active_reviews
    THEN UNCHANGED vars
    ELSE /\ active_reviews' =
               [active_reviews EXCEPT ![task_id] = DictSet(@, "status", "PROCESSING")]
         /\ calls' = Append(calls,
               [task_id |-> task_id,
                paper_path |-> Get(active_reviews[task_id], "paper_path", NoneStr),
                pc |-> "reader",
                reader_output |-> EmptyDict,
                assessment |-> EmptyDict,
                returned |-> None])
         /\ UNCHANGED <<fs, probe, review_counter, workflow_history,
                        conversation_history, issued>>

\* execute_review's success path once review_paper has returned
CompletedTask(task, review_result) ==
    DictSet(DictSet(task, "status", "COMPLETED"), "result", review_result)

\* the except clause without line 87 (the error is not stored)
FailedTaskWithoutError(task, e) == DictSet(task, "status", "FAILED")

\* the except clause without line 86 (the status is not set)
FailedTaskStillProcessing(task, e) == DictSet(task, "error", e)

\* execute_review's except clause
FailedTask(task, e) ==
    DictSet(DictSet(task, "status", "FAILED"), "error", e)

\* the coroutine c has returned: its locals are gone, its response is kept
Finished(c, returned) ==
    [calls EXCEPT ![c].pc = "done",
                  ![c].reader_output = EmptyDict,
                  ![c].assessment = EmptyDict,
                  ![c].returned = returned]

\* a fault e leaves review_paper and is caught by execute_review
Raise(c, e) ==
    LET task_id == calls[c].task_id
    IN /\ active_reviews' =
             [active_reviews EXCEPT ![task_id] = FailedTask(@, e)]
       /\ calls' = Finished(c, [task_id |-> task_id, status |-> "FAILED",
                                error |-> e])

\* review_paper returns final_review to execute_review
Return(c, final_review) ==
    LET task_id == calls[c].task_id
    IN /\ active_reviews' =
             [active_reviews EXCEPT ![task_id] = CompletedTask(@, final_review)]
       /\ calls' = Finished(c, [task_id |-> task_id, status |-> "COMPLETED",
                                review |-> final_review])

\* add_to_history keeping only the latest Message
add_to_history_latest(agent, message) ==
    conversation_history' =
        [conversation_history EXCEPT ![agent] = <<message>>]

\* BaseAgent.add_to_history
add_to_history(agent, message) ==
    conversation_history' =
        [conversation_history EXCEPT ![agent] = Append(@, message)]

\* an entry that does not carry its stage's number
HistoryEntryUnnumbered(step, agent, message, c) ==
    [step |-> 1, agent |-> agent, message |-> message, review |-> c]

\* one entry of the workflow history; review is the call it comes from
HistoryEntry(step, agent, message, c) ==
    [step |-> step, agent |-> agent, message |-> message, review |-> c]

\* ------------------------------------------------------------- review_paper
\* Each stage suspends only inside its agent's tool calls, which touch no
\* shared state; the code between a stage's last tool call and the next
\* stage's first one runs without suspension and is one action.

\* lines 42-45 with reader_output = {} in the except clause
reader_output_without_fallback(reader_message, paper_path) ==
    LET parsed == json_loads(reader_message.content)
    IN IF parsed.ok THEN parsed.value ELSE EmptyDict

\* review_paper's reading of the Reader's content (lines 42-45)
reader_output_of(reader_message, paper_path) ==
    LET parsed == json_loads(reader_message.content)
    IN IF parsed.ok THEN parsed.value
       ELSE [sections |-> EmptyDict, paper_id |-> paper_path]

\* Step 1: the Reader's tool calls return
ReaderStage(c, outcome) ==
    /\ calls[c].pc = "reader"
    /\ \E reader_message \in {ReaderProcess(fs, calls[c].paper_path)} :
       \E reader_output \in
              {reader_output_of(reader_message, calls[c].paper_path)} :
          /\ add_to_history("Reader", reader_message)
          /\ IF outcome = "raise"
             THEN /\ Raise(c, FaultText)
                  /\ UNCHANGED workflow_history
             ELSE /\ workflow_history' = Append(workflow_history,
                         HistoryEntry(1, "Reader", reader_message, c))
                  /\ calls' = [calls EXCEPT ![c].pc = "meta",
                                            ![c].reader_output = reader_output]
                  /\ UNCHANGED active_reviews
    /\ UNCHANGED <<fs, probe, review_counter, issued>>

\* review_paper's reading of an agent's content under key (lines 60-64, 81-85)
parsed_output_of(message, key) ==
    LET parsed == json_loads(message.content)
    IN IF parsed.ok THEN Get(parsed.value, key, EmptyDict) ELSE EmptyDict

\* Step 2: the MetaReviewer's tool calls return
MetaReviewerStage(c) ==
    /\ calls[c].pc = "meta"
    /\ \E meta_message \in
              {MetaReviewerProcess(calls[c].reader_output,
                                   fs[calls[c].paper_path].savable)} :
       \E assessment \in {parsed_output_of(meta_message, "assessment")} :
          /\ add_to_history("MetaReviewer", meta_message)
          /\ workflow_history' = Append(workflow_history,
                 HistoryEntry(2, "MetaReviewer", meta_message, c))
          /\ calls' = [calls EXCEPT ![c].pc = "critic",
                                    ![c].assessment = assessment]
    /\ UNCHANGED active_reviews
    /\ UNCHANGED <<fs, probe, review_counter, issued>>

\* Step 3 with reader_output kept on the orchestrator instead of in
\* review_paper's frame: the review is compiled from what the review that
\* last passed Step 1 has read
CriticStageSharedOutput(c) ==
    /\ calls[c].pc = "critic"
    /\ \E critic_message \in
              {CriticProcess(calls[c].reader_output, calls[c].assessment)} :
       \E critique \in {parsed_output_of(critic_message, "critique")} :
       \E final_review \in
              {compile_review(
                  LET readers == SelectSeq(workflow_history,
                                           LAMBDA e : e.step = 1)
                  IN calls[readers[Len(readers)].review].reader_output,
                  calls[c].assessment,
                              critique)} :
          /\ add_to_history("Critic", critic_message)
          /\ IF ~ json_loads(critic_message.content).ok
             THEN /\ Raise(c, <<"UnboundLocalError", "critic_output">>)
                  /\ UNCHANGED workflow_history
             ELSE /\ workflow_history' = Append(workflow_history,
                         HistoryEntry(3, "Critic", critic_message, c))
                  /\ Return(c, final_review)
    /\ UNCHANGED <<fs, probe, review_counter, issued>>

\* Step 3: the Critic's tool calls return, the review is compiled and
\* execute_review stores it.  When the Critic's content does not parse,
\* critic_output is unbound at the report (line 88) and review_paper raises.
CriticStage(c) ==
    /\ calls[c].pc = "critic"
    /\ \E critic_message \in
              {CriticProcess(calls[c].reader_output, calls[c].assessment)} :
       \E critique \in {parsed_output_of(critic_message, "critique")} :
       \E final_review \in
              {compile_review(calls[c].reader_output, calls[c].assessment,
                              critique)} :
          /\ add_to_history("Critic", critic_message)
          /\ IF ~ json_loads(critic_message.content).ok
             THEN /\ Raise(c, <<"UnboundLocalError", "critic_output">>)
                  /\ UNCHANGED workflow_history
             ELSE /\ workflow_history' = Append(workflow_history,
                         HistoryEntry(3, "Critic", critic_message, c))
                  /\ Return(c, final_review)
    /\ UNCHANGED <<fs, probe, review_counter, issued>>

\* ------------------------------------------------------------- requests
SupportedOperations ==
    {"submit_paper", "get_status", "execute_review", "get_trace"}

\* what execute_review returns before it suspends: the error for an unknown
\* id; for a known one nothing yet (the response is calls[c].returned, once
\* review_paper has returned or raised)
execute_review_returns(task_id) ==
    IF task_id \notin DOMAIN active_reviews THEN NotFound(task_id) ELSE None

handle_request(request) ==
    LET operation == Get(request, "operation", NoneStr)
        params == Get(request, "params", EmptyDict)
    IN IF operation = "submit_paper"
       THEN submit_paper(Get(params, "paper_path", NoneStr))
       ELSE IF operation = "get_status"
       THEN get_review_status(Get(params, "task_id", NoneId))
       ELSE IF operation = "execute_review"
       THEN execute_review(Get(params, "task_id", NoneId))
       ELSE IF operation = "get_trace"
       THEN get_workflow_trace(Get(params, "task_id", NoneId))
       ELSE UNCHANGED vars

\* what handle_request returns when the handler answers without suspending
handle_request_returns(request) ==
    LET operation == Get(request, "operation", NoneStr)
        params == Get(request, "params", EmptyDict)
    IN IF operation = "submit_paper"
       THEN submit_paper_returns(Get(params, "paper_path", NoneStr))
       ELSE IF operation = "get_status"
       THEN get_review_status_returns(Get(params, "task_id", NoneId))
       ELSE IF operation = "execute_review"
       THEN execute_review_returns(Get(params, "task_id", NoneId))
       ELSE IF operation = "get_trace"
       THEN get_workflow_trace_returns(Get(params, "task_id", NoneId))
       ELSE [error |-> <<"Unknown operation: ", operation>>]

Request(operation, params) == [operation |-> operation, params |-> params]

\* the task ids a request may name: every id the service can issue, one it
\* never issues, and none at all (params without task_id)
TaskIdParams ==
    {EmptyDict} \cup {[task_id |-> task_id_of(n)] : n \in 1..(MaxTasks + 1)}

UnsupportedOperations == {"delete_task", NoneStr}

SubmitPaper == \E p \in PaperRefs :
                   handle_request(Request("submit_paper", [paper_path |-> p]))
GetStatus == \E params \in TaskIdParams :
                 handle_request(Request("get_status", params))
ExecuteReview == \E params \in TaskIdParams :
                     handle_request(Request("execute_review", params))
GetTrace == \E params \in TaskIdParams :
                handle_request(Request("get_trace", params))
UnknownOperation == \E op \in UnsupportedOperations :
                        handle_request(Request(op, EmptyDict))

ReaderReturns == \E c \in 1..Len(calls) : \E outcome \in Outcomes :
                     ReaderStage(c, outcome)
MetaReviewerReturns == \E c \in 1..Len(calls) : MetaReviewerStage(c)
CriticReturns == \E c \in 1..Len(calls) : CriticStage(c)

\* the execute_review coroutines that have not returned
InFlight == {c \in 1..Len(calls) : calls[c].pc # "done"}

\* the bounds of a run: how many tasks, how many executions, how many of
\* them suspended at once
WithinBounds ==
    /\ review_counter <= MaxTasks
    /\ Len(calls) <= MaxCalls
    /\ Cardinality(InFlight) <= MaxInFlight

Next ==
    \/ SubmitPaper /\ WithinBounds'
    \/ GetStatus
    \/ ExecuteReview /\ WithinBounds'
    \/ GetTrace
    \/ UnknownOperation
    \/ ReaderReturns
    \/ MetaReviewerReturns
    \/ CriticReturns

Spec == Init /\ [][Next]_vars

\* ------------------------------------------------------------- fairness
\* The event loop resumes a coroutine once the tool call it awaits has
\* returned, and every tool of tools.py returns (each catches what it raises).
LiveSpec ==
    /\ Spec
    /\ WF_vars(ReaderReturns)
    /\ WF_vars(MetaReviewerReturns)
    /\ WF_vars(CriticReturns)

\* ------------------------------------------------------------- one review
\* One paper, any of the files of ReviewLibraries, is submitted and reviewed
\* once, on an output stream that encodes what review_paper prints.
ReviewInit ==
    /\ fs \in ReviewLibraries
    /\ probe = None
    /\ Constructed

ReaderReports == \E c \in 1..Len(calls) : ReaderStage(c, "ok")

ReviewNext ==
    \/ review_counter = 0 /\ SubmitPaper
    \/ calls = <<>> /\ ExecuteReview
    \/ ReaderReports
    \/ MetaReviewerReturns
    \/ CriticReturns

ReviewSpec == ReviewInit /\ [][ReviewNext]_vars

\* ------------------------------------------------------------- _assess_quality
\* _assess_quality called on its own: on any sections mapping (none, or the
\* six keys with any of the texts) and any citations result (the tool's error
\* or any count)
\* a paper whose abstract says "novel" and whose methodology has 150
\* characters
ScenarioSections ==
    [NoSections EXCEPT
        !["abstract"] = Txt(120, TRUE, <<0, 0, 0>>, 18, 2, 1),
        !["methodology"] = Txt(150, FALSE, <<1, 0, 0>>, 22, 2, 1)]

AssessSections == {EmptyDict, ScenarioSections} \cup SectionMaps
AssessCitations ==
    {[error |-> "Citation extraction failed"]} \cup
    {[success |-> TRUE, citation_count |-> n] : n \in 0..MaxCitations}

AssessInit ==
    /\ fs \in ServiceLibraries
    /\ probe \in {[sections |-> s, citations |-> c, assessment |-> None] :
                     s \in AssessSections, c \in AssessCitations}
    /\ Constructed

AssessQuality ==
    /\ probe.assessment = None
    /\ probe' = [probe EXCEPT !.assessment =
                     assess_quality(probe.sections, probe.citations, EmptyDict)]
    /\ UNCHANGED <<fs, service, calls, issued>>

AssessNext == AssessQuality

AssessSpec == AssessInit /\ [][AssessNext]_vars

\* ------------------------------------- the recommendation, input by input
\* the assessments: each quality, a value outside the four, and no quality
Qualities == {"EXCELLENT", "GOOD", "FAIR", "POOR", "UNKNOWN", "SUPERB"}
RecommendAssessments ==
    {EmptyDict} \cup {[overall_quality |-> q] : q \in Qualities}

Severities == {"CRITICAL", "MAJOR", "MINOR"}
\* the lists of issues: any severities, the i-th issue recommending its own
\* text
IssueLists ==
    {[i \in DOMAIN l |-> [severity |-> l[i],
                          recommendation |-> <<"recommendation ", i>>]] :
        l \in UNION {[1..n -> Severities] : n \in 0..MaxIssues}}
\* the critiques: with a list of issues, or without the key
RecommendCritiques == {EmptyDict} \cup {[issues |-> l] : l \in IssueLists}

RecommendInit ==
    /\ fs \in ServiceLibraries
    /\ probe \in {[assessment |-> a, critique |-> c, recommendation |-> NoneStr,
                   next_steps |-> None] :
                     a \in RecommendAssessments, c \in RecommendCritiques}
    /\ Constructed

Recommend ==
    /\ probe.recommendation = NoneStr
    /\ probe' = [probe EXCEPT !.recommendation =
                     generate_final_recommendation(probe.assessment,
                                                   probe.critique)]
    /\ UNCHANGED <<fs, service, calls, issued>>

\* a direct call of _generate_next_steps
NextSteps ==
    /\ probe.next_steps = None
    /\ probe' = [probe EXCEPT !.next_steps =
                     [steps |-> generate_next_steps(probe.assessment,
                                                    probe.critique)]]
    /\ UNCHANGED <<fs, service, calls, issued>>

RecommendNext == Recommend \/ NextSteps

RecommendSpec == RecommendInit /\ [][RecommendNext]_vars

\* --------------------------------------------- one agent's tools, call by call
\* probe is one BaseAgent (tools, conversation_history), the external state
\* its tools read and write (world), the execute_tool calls suspended in an
\* async tool (pending), the results of the calls made since the last
\* registration or external change (log) and the last call that returned.
ToolNames == {"load_sample_paper", "save_review"}
ToolArgs == 0..1
WorldStates == 0..1

\* the functions registered as tools: def or async def; one that reads the
\* external state, one that writes its argument to it, one that raises
ToolFuncs == [kind : {"sync", "async"}, does : {"reads", "writes", "raises"}]

\* asyncio.iscoroutinefunction(tool_func)
iscoroutinefunction(tool_func) == tool_func.kind = "async"

\* save_review_result creating a new file instead of overwriting (mode 'x'):
\* its result tells whether the file was already as written
invoke_exclusive(tool_func, args, world) ==
    IF tool_func.does = "reads"
    THEN (IF world = args THEN [success |-> TRUE, content |-> world]
          ELSE [error |-> <<"Paper not found: ", args>>])
    ELSE IF tool_func.does = "writes"
    THEN (IF world = args THEN [error |-> <<"File save failed: ", args>>]
          ELSE [success |-> TRUE, size_bytes |-> args])
    ELSE Raised(<<"fault in tool: ", args>>)

\* tool_func(**kwargs): what the tool returns, or the fault it raises
invoke(tool_func, args, world) ==
    IF tool_func.does = "reads"
    THEN (IF world = args THEN [success |-> TRUE, content |-> world]
          ELSE [error |-> <<"Paper not found: ", args>>])
    ELSE IF tool_func.does = "writes"
    THEN [success |-> TRUE, size_bytes |-> args]
    ELSE Raised(<<"fault in tool: ", args>>)

\* the external state after tool_func(**kwargs)
world_after(tool_func, args, world) ==
    IF tool_func.does = "writes" THEN args ELSE world

ToolInit ==
    /\ fs \in {files \in ServiceLibraries : \A r \in PaperRefs : files[r].sample}
    /\ probe = [tools |-> EmptyDict, conversation_history |-> <<>>,
                world |-> 0, pending |-> <<>>, log |-> {}, returned |-> None]
    /\ Constructed

\* the suspended calls after a registration or an external change
Disturbed(pending) ==
    [i \in DOMAIN pending |-> [pending[i] EXCEPT !.clean = FALSE]]

\* BaseAgent.register_tool
RegisterTool ==
    \E tool_name \in ToolNames, tool_func \in ToolFuncs :
        /\ probe' = [probe EXCEPT
                        !.tools = [k \in DOMAIN @ \cup {tool_name} |->
                                      IF k = tool_name THEN tool_func ELSE @[k]],
                        !.log = {},
                        !.pending = Disturbed(@)]
        /\ UNCHANGED <<fs, service, calls, issued>>

\* execute_tool returns to its caller: outcome is what the tool did (None when
\* no tool was invoked), rest the calls still suspended, clean whether nothing
\* was registered or changed outside since the call was made
ToolReturns(tool_name, args, tool_func, outcome, rest, clean) ==
    LET invoked == tool_name \in DOMAIN probe.tools
        world == IF invoked THEN world_after(tool_func, args, probe.world)
                 ELSE probe.world
        result == execute_tool(DOMAIN probe.tools, tool_name, outcome)
        kept == IF world = probe.world THEN probe.log ELSE {}
        same == {e \in kept : e.tool_name = tool_name /\ e.args = args}
        \* repeated: the call was made before with that result
        entry == [tool_name |-> tool_name, args |-> args, result |-> result,
                  repeated |-> same # {}]
    IN probe' = [probe EXCEPT
                    !.world = world,
                    !.pending = IF world = probe.world THEN rest
                                ELSE Disturbed(rest),
                    !.log = IF clean
                            THEN (kept \ {e \in same : e.result = result})
                                 \cup {entry}
                            ELSE kept,
                    !.returned = [tool_name |-> tool_name, args |-> args,
                                  invoked |-> invoked, tool_func |-> tool_func,
                                  outcome |-> outcome, result |-> result]]

\* BaseAgent.execute_tool up to its return or, for an async tool, up to the
\* suspension of `await tool_func(**kwargs)`
ExecuteTool ==
    \E tool_name \in ToolNames, args \in ToolArgs :
        /\ IF tool_name \notin DOMAIN probe.tools
           THEN ToolReturns(tool_name, args, NoneStr, None, probe.pending, TRUE)
           ELSE LET tool_func == probe.tools[tool_name]
                IN IF iscoroutinefunction(tool_func)
                   THEN /\ Len(probe.pending) < MaxPending
                        /\ probe' = [probe EXCEPT !.pending =
                                        Append(@, [tool_name |-> tool_name,
                                                   args |-> args,
                                                   tool_func |-> tool_func,
                                                   clean |-> TRUE])]
                   ELSE ToolReturns(tool_name, args, tool_func,
                                    invoke(tool_func, args, probe.world),
                                    probe.pending, TRUE)
        /\ UNCHANGED <<fs, service, calls, issued>>

\* an awaited async tool finishes and execute_tool returns (lines 44, 47-48)
ToolFinishes ==
    \E i \in DOMAIN probe.pending :
        LET frame == probe.pending[i]
            rest == SubSeq(probe.pending, 1, i - 1)
                    \o SubSeq(probe.pending, i + 1, Len(probe.pending))
        IN /\ ToolReturns(frame.tool_name, frame.args, frame.tool_func,
                          invoke(frame.tool_func, frame.args, probe.world),
                          rest, frame.clean)
           /\ UNCHANGED <<fs, service, calls, issued>>

\* BaseAgent.add_to_history on the agent whose tools are called
AddToHistory ==
    /\ Len(probe.conversation_history) < MaxMessages
    /\ probe' = [probe EXCEPT !.conversation_history =
                    Append(@, Message("Reader", PlainText("noted"), NoneStr))]
    /\ UNCHANGED <<fs, service, calls, issued>>

\* something other than the agent's tools changes the external state
ExternalChange ==
    \E world \in WorldStates \ {probe.world} :
        /\ probe' = [probe EXCEPT !.world = world, !.log = {},
                                  !.pending = Disturbed(@)]
        /\ UNCHANGED <<fs, service, calls, issued>>

ToolNext ==
    \/ RegisterTool
    \/ ExecuteTool
    \/ ToolFinishes
    \/ AddToHistory
    \/ ExternalChange

ToolSpec == ToolInit /\ [][ToolNext]_vars

\* ------------------------------------------------- the evaluation harness
\* probe is one EvaluationHarness: its test_cases, how many of them run_all_tests
\* has taken (taken), its results, whether a fault has left run_all_tests
\* (stopped), the metrics it returned, and whether the output stream encodes
\* the marks the harness and the orchestrator print (encodes).  The harness
\* owns one PaperReviewOrchestrator, whose histories are the service's.
TestIds ==
    {"TEST_001", "TEST_002", "TEST_003", "TEST_004", "TEST_005", "TEST_006",
     "TEST_900"}
TestCases == {[test_id |-> t, input |-> [paper_id |-> p]] :
                 t \in TestIds, p \in PaperRefs}
Fixtures == UNION {[1..n -> TestCases] : n \in 0..MaxTests}

\* PaperReviewOrchestrator.review_paper run to its return: the three Messages
\* and the Review
review_paper_returns(files, paper_path) ==
    LET reader_message == ReaderProcess(files, paper_path)
        reader_output == reader_output_of(reader_message, paper_path)
        meta_message == MetaReviewerProcess(reader_output,
                                            files[paper_path].savable)
        assessment == parsed_output_of(meta_message, "assessment")
        critic_message == CriticProcess(reader_output, assessment)
        critique == parsed_output_of(critic_message, "critique")
    IN [messages |-> <<reader_message, meta_message, critic_message>>,
        review |-> compile_review(reader_output, assessment, critique)]

\* EvaluationHarness._validate_test: is_passed
validate_test(test_case, output) ==
    LET test_id == Get(test_case, "test_id", NoneStr)
        extraction == Get(output, "reader_extraction", EmptyDict)
        assessment == Get(output, "quality_assessment", EmptyDict)
    IN IF test_id = "TEST_001"
       THEN Get(extraction, "text_length", 0) > 100
            /\ Get(extraction, "sections_identified", 0) >= 3
       ELSE IF test_id = "TEST_002"
       THEN Get(assessment, "citation_score", 0) >= Points(4)
       ELSE IF test_id = "TEST_003"
       THEN Len(Get(Get(output, "critique", EmptyDict), "issues", <<>>)) >= 0
       ELSE IF test_id = "TEST_004"
       THEN Get(output, "review_status", NoneStr) = "COMPLETE"
            /\ "overall_recommendation" \in DOMAIN output
            /\ "quality_assessment" \in DOMAIN output
       ELSE IF test_id = "TEST_005"
       THEN Get(output, "review_status", NoneStr) = "COMPLETE"
       ELSE IF test_id = "TEST_006"
       THEN \A name \in {"novelty_score", "methodology_score",
                          "citation_score", "completeness_score"} :
               /\ 0 <= Get(assessment, name, 0)
               /\ Get(assessment, name, 0) <= Points(10)
       ELSE TRUE

\* one TestResult
TestResult(test_case, status) ==
    [test_id |-> Get(test_case, "test_id", NoneStr), status |-> status]

\* EvaluationHarness._compute_aggregate_metrics: the summary, success_rate in
\* hundredths of a percent
compute_aggregate_metrics(results) ==
    LET total_tests == Len(results)
        count(status) == Len(SelectSeq(results, LAMBDA r : r.status = status))
        passed_tests == count("PASSED")
    IN [total_tests |-> total_tests,
        passed |-> passed_tests,
        failed |-> count("FAILED"),
        errors |-> count("ERROR"),
        success_rate |-> IF total_tests > 0
                         THEN RoundDiv(100 * 100 * passed_tests, total_tests)
                         ELSE 0,
        test_results |-> results]

HarnessInit ==
    /\ fs \in ServiceLibraries
    /\ probe \in {[test_cases |-> f, taken |-> 0, results |-> <<>>,
                   stopped |-> FALSE, metrics |-> None, encodes |-> e] :
                     f \in Fixtures, e \in BOOLEAN}
    /\ Constructed

\* run_all_tests takes the next test case: _run_test.  With a stream that
\* does not encode the check mark review_paper raises at its first report
\* (orchestrator.py line 47), _run_test appends the ERROR result in its except
\* clause, and the cross it prints there (line 86) raises again, out of
\* _run_test and run_all_tests.
RunTest ==
    /\ ~ probe.stopped
    /\ probe.taken < Len(probe.test_cases)
    /\ LET test_case == probe.test_cases[probe.taken + 1]
           paper_id == Get(Get(test_case, "input", EmptyDict), "paper_id", NoneStr)
       IN \E outcome \in {review_paper_returns(fs, paper_id)} :
            IF probe.encodes
            THEN /\ conversation_history' =
                       [a \in AgentNames |->
                           Append(conversation_history[a],
                                  outcome.messages[
                                      CHOOSE i \in 1..3 :
                                          outcome.messages[i].sender = a])]
                 /\ workflow_history' =
                       workflow_history
                       \o [i \in 1..3 |->
                              HistoryEntry(i, outcome.messages[i].sender,
                                           outcome.messages[i], probe.taken + 1)]
                 /\ probe' = [probe EXCEPT
                       !.taken = @ + 1,
                       !.results = Append(@,
                           TestResult(test_case,
                               IF validate_test(test_case, outcome.review)
                               THEN "PASSED" ELSE "FAILED"))]
            ELSE /\ add_to_history("Reader", outcome.messages[1])
                 /\ UNCHANGED workflow_history
                 /\ probe' = [probe EXCEPT
                       !.taken = @ + 1,
                       !.results = Append(@, TestResult(test_case, "ERROR")),
                       !.stopped = TRUE]
    /\ UNCHANGED <<fs, review_counter, active_reviews, calls, issued>>

\* run_all_tests has taken every test case and returns the metrics
ComputeAggregate ==
    /\ ~ probe.stopped
    /\ probe.taken = Len(probe.test_cases)
    /\ probe.metrics = None
    /\ probe' = [probe EXCEPT !.metrics = compute_aggregate_metrics(probe.results)]
    /\ UNCHANGED <<fs, service, calls, issued>>

HarnessNext == RunTest \/ ComputeAggregate

HarnessSpec == HarnessInit /\ [][HarnessNext]_vars

\* ------------------------------------------- reviews in flight together
\* The references of two different papers.
ConcurrentRefs == {"sample_paper_1", "sample_paper_2"}

\* the first names a complete sample paper; the second names a sample paper,
\* a PDF or nothing
ConcurrentLibraries ==
    {[r \in ConcurrentRefs |->
         IF r = "sample_paper_1"
         THEN File(TRUE, "absent", 0, TRUE, 3000, CompleteSections)
         ELSE f] :
        f \in {File(TRUE, "absent", 0, TRUE, 200, NoSections),
               File(FALSE, "ok", 3, TRUE, 3000, CompleteSections),
               File(FALSE, "absent", 0, TRUE, 0, NoSections)}}

ConcurrentInit ==
    /\ fs \in ConcurrentLibraries
    /\ probe = None
    /\ Constructed

SubmitPapers == \E p \in ConcurrentRefs :
                    handle_request(Request("submit_paper", [paper_path |-> p]))

\* how many tasks and how many executions; every execution may be suspended
\* while the others run
ConcurrentBounds ==
    /\ review_counter <= MaxTasks
    /\ Len(calls) <= MaxCalls

\* The requests arrive on one event loop, the tools suspend, and the output
\* stream encodes what review_paper prints.
ConcurrentNext ==
    \/ SubmitPapers /\ ConcurrentBounds'
    \/ ExecuteReview /\ ConcurrentBounds'
    \/ ReaderReports
    \/ MetaReviewerReturns
    \/ CriticReturns

ConcurrentSpec == ConcurrentInit /\ [][ConcurrentNext]_vars

\* ------------------------------------------------------------- properties
Status(task_id) == Get(active_reviews[task_id], "status", NoneStr)
Terminal == {"COMPLETED", "FAILED"}

\* the steps of QUEUED -> PROCESSING -> (COMPLETED or FAILED)
StatusSteps ==
    {<<"QUEUED", "PROCESSING">>, <<"PROCESSING", "COMPLETED">>,
     <<"PROCESSING", "FAILED">>}

\* C1: every change of a task's status is a step of QUEUED -> PROCESSING ->
\* (COMPLETED or FAILED); a COMPLETED or FAILED task keeps its status and no
\* task goes back to PROCESSING or QUEUED.
C1_StatusSequence ==
    [][\A t \in DOMAIN active_reviews :
          LET before == Status(t)
              after == Get(active_reviews'[t], "status", NoneStr)
          IN after = before \/ <<before, after>> \in StatusSteps]_vars

\* the counter of a task id
CounterOf(task_id) == task_id[2]

\* C2: the step that issues an id, moves the counter or adds a task stores
\* exactly one new task, QUEUED and without result, under an id never issued
\* before whose counter exceeds that of every id issued before, and changes no
\* existing task.
C2_SubmitFresh ==
    [][(issued' # issued \/ review_counter' # review_counter
        \/ DOMAIN active_reviews' # DOMAIN active_reviews) =>
          LET task_id == task_id_of(review_counter')
          IN /\ issued' = Append(issued, task_id)
             /\ task_id \notin DOMAIN active_reviews
             /\ \A i \in 1..Len(issued) : issued[i] # task_id
             /\ DOMAIN active_reviews' = DOMAIN active_reviews \cup {task_id}
             /\ active_reviews'[task_id].status = "QUEUED"
             /\ Get(active_reviews'[task_id], "result", None) = None
             /\ \A t \in DOMAIN active_reviews :
                    active_reviews'[t] = active_reviews[t]
             /\ \A i \in 1..Len(issued) :
                    CounterOf(issued[i]) < CounterOf(task_id)]_vars

\* a second id has been issued after the first task ended FAILED or COMPLETED
C2_Witness ==
    /\ Len(issued) >= 2
    /\ Status(issued[1]) \in Terminal
    /\ Status(issued[2]) = "QUEUED"
    /\ CounterOf(issued[1]) < CounterOf(issued[2])

\* the responses of the execute_review calls that completed a task
CompletedWith(task_id) ==
    {calls[c].returned.review :
        c \in {d \in 1..Len(calls) :
                  /\ calls[d].task_id = task_id
                  /\ calls[d].pc = "done"
                  /\ calls[d].returned.status = "COMPLETED"}}

\* C3: a COMPLETED task holds as its result the Review an execute_review call
\* of that task returned, and a QUEUED, PROCESSING or FAILED task holds no
\* result.
C3_ResultIffCompleted ==
    \A t \in DOMAIN active_reviews :
        IF Status(t) = "COMPLETED"
        THEN Get(active_reviews[t], "result", None) \in CompletedWith(t)
        ELSE Get(active_reviews[t], "result", None) = None

GetTrace_of(task_id) ==
    handle_request_returns(Request("get_trace", [task_id |-> task_id]))

\* C4: get_trace of a known task that is not COMPLETED returns an error and
\* nothing else; a response carries a workflow only for a COMPLETED task.
C4_TraceOnlyWhenCompleted ==
    \A t \in DOMAIN active_reviews :
        LET response == GetTrace_of(t)
        IN IF Status(t) = "COMPLETED"
           THEN "workflow" \in DOMAIN response /\ "error" \notin DOMAIN response
           ELSE DOMAIN response = {"error"}

\* get_trace is refused for a FAILED task while another task is PROCESSING
C4_Witness ==
    \E t, u \in DOMAIN active_reviews :
        /\ Status(t) = "FAILED"
        /\ Status(u) = "PROCESSING"
        /\ DOMAIN GetTrace_of(t) = {"error"}
        /\ DOMAIN GetTrace_of(u) = {"error"}

IssuedIds == {issued[i] : i \in 1..Len(issued)}

\* the requests that name a task id never issued or no task id at all, and
\* those that name no supported operation
UnknownTaskRequests ==
    {Request(op, params) :
        op \in {"get_status", "execute_review", "get_trace"},
        params \in {q \in TaskIdParams :
                       Get(q, "task_id", NoneId) \notin IssuedIds}}
UnknownOperationRequests ==
    {Request(op, params) : op \in UnsupportedOperations, params \in TaskIdParams}

\* C5: a request naming a task id never issued (or none) and a request naming
\* an unsupported operation return an error and nothing else, and the step
\* handling one changes neither the task mapping, the counter nor the
\* histories (stated as: a step that changes one of them handles no such
\* request).
C5_UnknownIsError ==
    /\ [](/\ \A req \in UnknownTaskRequests :
               handle_request_returns(req) =
                   NotFound(Get(req.params, "task_id", NoneId))
          /\ \A req \in UnknownOperationRequests :
               handle_request_returns(req) =
                   [error |-> <<"Unknown operation: ", req.operation>>])
    /\ [][UNCHANGED service
          \/ \A req \in UnknownTaskRequests \cup UnknownOperationRequests :
                 ~ handle_request(req)]_vars

\* requests for a never issued id are handled while a task is stored and
\* a review has been recorded
C5_Witness ==
    /\ review_counter = 1
    /\ Len(workflow_history) > 0
    /\ Request("execute_review", [task_id |-> task_id_of(2)])
           \in UnknownTaskRequests
    /\ Request("get_trace", EmptyDict) \in UnknownTaskRequests

\* C6: when review_paper raises in an execute_review call, the call returns
\* a response: the task is FAILED with the fault's text as its error and the
\* response reports FAILED with the same text.
C6_FaultBecomesFailed ==
    [][\A c \in 1..Len(calls) :
          ReaderStage(c, "raise") =>
              LET task_id == calls[c].task_id
              IN /\ Get(active_reviews'[task_id], "status", NoneStr) = "FAILED"
                 /\ Get(active_reviews'[task_id], "error", NoneId) = FaultText
                 /\ calls'[c].pc = "done"
                 /\ calls'[c].returned =
                        [task_id |-> task_id, status |-> "FAILED",
                         error |-> FaultText]]_vars

\* an execute_review call has returned FAILED and its task stores the text
C6_Witness ==
    \E c \in 1..Len(calls) :
        /\ calls[c].pc = "done"
        /\ calls[c].returned.status = "FAILED"
        /\ Status(calls[c].task_id) = "FAILED"
        /\ active_reviews[calls[c].task_id].error = calls[c].returned.error

\* the ids the service can issue within the bounds
TaskIds == {task_id_of(n) : n \in 1..MaxTasks}

\* C7: a task that is PROCESSING is eventually COMPLETED or FAILED.
C7_ProcessingEnds ==
    \A t \in TaskIds :
        (t \in DOMAIN active_reviews /\ Status(t) = "PROCESSING")
            ~> (t \in DOMAIN active_reviews /\ Status(t) \in Terminal)

\* an execute_review call has run through its three stages and its task is
\* COMPLETED
C7_Witness ==
    \E c \in 1..Len(calls) :
        /\ calls[c].pc = "done"
        /\ calls[c].returned.status = "COMPLETED"
        /\ Status(calls[c].task_id) = "COMPLETED"
        /\ Len(workflow_history) >= 3

\* whether the Reader resolves a reference: the sample loader or the PDF
\* extraction succeeds
Resolved(paper_path) ==
    \/ Get(load_sample_paper(fs, paper_path), "success", FALSE)
    \/ Get(extract_pdf_text(fs, paper_path), "success", FALSE)

Recommendations ==
    {"ACCEPT", "ACCEPT_WITH_MINOR_REVISIONS", "MAJOR_REVISIONS_REQUIRED",
     "REJECT"}

\* the execute_review calls that have returned
Returned == {c \in 1..Len(calls) : calls[c].pc = "done"}

ScoreNames ==
    {"novelty_score", "methodology_score", "citation_score",
     "completeness_score"}

\* C10: each of the four scores of an Assessment lies in [0, 10].
C10_ScoresInRange ==
    probe.assessment # None =>
        \A name \in ScoreNames :
            /\ probe.assessment[name] >= Points(0)
            /\ probe.assessment[name] <= Points(10)

\* an Assessment of six sections and MaxCitations citations, where both
\* caps apply
C10_Witness ==
    /\ probe.assessment # None
    /\ NonEmptyCount(probe.sections) = 6
    /\ Get(probe.citations, "citation_count", 0) = MaxCitations
    /\ probe.assessment.citation_score = Points(10)
    /\ probe.assessment.completeness_score = Points(10)

\* C11: each of the four scores of an Assessment is a whole number of points.
C11_ScoresWhole ==
    probe.assessment # None =>
        \A name \in ScoreNames : probe.assessment[name] % Points(1) = 0

\* the sum of the four scores of an Assessment, in half points
ScoreSum(assessment) ==
    assessment.novelty_score + assessment.methodology_score
    + assessment.citation_score + assessment.completeness_score

\* the threshold classification of an average given in hundredths of a point
Classified(hundredths) ==
    IF hundredths >= 800 THEN "EXCELLENT"
    ELSE IF hundredths >= 600 THEN "GOOD"
    ELSE IF hundredths >= 400 THEN "FAIR"
    ELSE "POOR"

\* C12: average_score is the mean of the four scores rounded to 2 decimals,
\* and overall_quality is the threshold classification of that rounded value.
C12_QualityOfRoundedAverage ==
    probe.assessment # None =>
        /\ probe.assessment.average_score
             = RoundDiv(100 * ScoreSum(probe.assessment), 4 * Points(1))
        /\ probe.assessment.overall_quality
             = Classified(probe.assessment.average_score)

\* an Assessment whose mean 7.875 is rounded to 7.88, just below a threshold
C12_Witness ==
    /\ probe.assessment # None
    /\ ScoreSum(probe.assessment) = 63
    /\ probe.assessment.average_score = 788
    /\ probe.assessment.overall_quality = "GOOD"

\* the reference rules of the four scores, in half points
ReferenceNovelty(sections) ==
    IF "abstract" \in DOMAIN sections /\ sections["abstract"].novel
    THEN Points(7) ELSE Points(5)
ReferenceMethodology(sections) ==
    IF "methodology" \in DOMAIN sections /\ sections["methodology"].len > 100
    THEN Points(8) ELSE Points(4)
ReferenceCitation(citationCount) ==
    LET uncapped == Points(3) + Points(1) * (citationCount \div 5)
    IN IF uncapped > Points(10) THEN Points(10) ELSE uncapped
ReferenceCompleteness(sections) ==
    LET nonEmpty == Cardinality({k \in DOMAIN sections : sections[k].len > 0})
        uncapped == Points(2) + 3 * nonEmpty
    IN IF uncapped > Points(10) THEN Points(10) ELSE uncapped
CitationCountOf(citations) ==
    IF "citation_count" \in DOMAIN citations THEN citations.citation_count ELSE 0

\* C13: the four scores of an Assessment equal the reference rules (7 or 5 for
\* novelty, 8 or 4 for methodology, min(10, 3 + floor(count / 5)) for citations,
\* min(10, 2 + 1.5 x non-empty sections) for completeness), and the scenario
\* with 12 citations, a 150-character methodology and a "novel" abstract is
\* scored 7, 8 and 5.
C13_ScoresFollowRules ==
    probe.assessment # None =>
        /\ probe.assessment.novelty_score = ReferenceNovelty(probe.sections)
        /\ probe.assessment.methodology_score
             = ReferenceMethodology(probe.sections)
        /\ probe.assessment.citation_score
             = ReferenceCitation(CitationCountOf(probe.citations))
        /\ probe.assessment.completeness_score
             = ReferenceCompleteness(probe.sections)
        /\ (probe.sections = ScenarioSections
            /\ CitationCountOf(probe.citations) = 12)
           => /\ probe.assessment.novelty_score = Points(7)
              /\ probe.assessment.methodology_score = Points(8)
              /\ probe.assessment.citation_score = Points(5)

\* the scenario has been assessed
C13_Witness ==
    /\ probe.assessment # None
    /\ probe.sections = ScenarioSections
    /\ probe.citations = [success |-> TRUE, citation_count |-> 12]
    /\ probe.assessment.completeness_score = Points(5)

\* the quality an assessment carries, and the CRITICAL issues of a critique
QualityOf(assessment) ==
    IF "overall_quality" \in DOMAIN assessment
    THEN assessment.overall_quality ELSE "missing"
CriticalCountOf(critique) ==
    IF "issues" \in DOMAIN critique
    THEN Cardinality({i \in DOMAIN critique.issues :
                         critique.issues[i].severity = "CRITICAL"})
    ELSE 0

\* C14: the recommendation is ACCEPT iff the quality is EXCELLENT and no issue
\* is CRITICAL, ACCEPT_WITH_MINOR_REVISIONS iff GOOD and none,
\* MAJOR_REVISIONS_REQUIRED iff at least one issue is CRITICAL, and REJECT in
\* every remaining case, a missing or unknown quality included.
C14_DecisionTable ==
    probe.recommendation # NoneStr =>
        LET quality == QualityOf(probe.assessment)
            critical == CriticalCountOf(probe.critique)
            rec == probe.recommendation
        IN /\ rec = "ACCEPT" <=> (quality = "EXCELLENT" /\ critical = 0)
           /\ rec = "ACCEPT_WITH_MINOR_REVISIONS"
                <=> (quality = "GOOD" /\ critical = 0)
           /\ rec = "MAJOR_REVISIONS_REQUIRED" <=> critical > 0
           /\ rec = "REJECT"
                <=> (quality \notin {"EXCELLENT", "GOOD"} /\ critical = 0)

\* an assessment without a quality and a critique with a CRITICAL issue last
\* got a recommendation
C14_Witness ==
    /\ probe.recommendation = "MAJOR_REVISIONS_REQUIRED"
    /\ probe.assessment = EmptyDict
    /\ Len(probe.critique.issues) = MaxIssues
    /\ probe.critique.issues[1].severity = "MINOR"
    /\ probe.critique.issues[MaxIssues].severity = "CRITICAL"

\* C15: execute_tool never raises to its caller: for a name that is not
\* registered it returns the error "Tool '<name>' not found" and invokes
\* nothing; for a registered tool, sync or async, that raises it returns an
\* error carrying the fault's text; otherwise it returns the tool's own result,
\* produced when the tool has finished.
C15_ToolFaultsContained ==
    probe.returned # None =>
        LET r == probe.returned
        IN /\ "raised" \notin DOMAIN r.result
           /\ ~ r.invoked =>
                /\ r.result = [error |-> <<"Tool '", r.tool_name, "' not found">>]
                /\ r.outcome = None
           /\ (r.invoked /\ "raised" \in DOMAIN r.outcome) =>
                r.result = [error |-> r.outcome.raised]
           /\ (r.invoked /\ "raised" \notin DOMAIN r.outcome) =>
                r.result = r.outcome

\* an awaited async tool raised and its caller got the fault's text
C15_Witness ==
    /\ probe.returned # None
    /\ probe.returned.invoked
    /\ probe.returned.tool_func = [kind |-> "async", does |-> "raises"]
    /\ probe.returned.result = [error |-> <<"fault in tool: ", 1>>]

\* C16: two execute_tool calls with the same tool name and arguments, with no
\* registration and no external change between them, return the same result,
\* and execute_tool changes neither the registry nor the agent's history.
C16_ExecuteToolIdempotent ==
    /\ [](\A e1, e2 \in probe.log :
            (e1.tool_name = e2.tool_name /\ e1.args = e2.args)
                => e1.result = e2.result)
    /\ [][\/ /\ probe'.tools = probe.tools
              /\ probe'.conversation_history = probe.conversation_history
           \/ ~ (ExecuteTool \/ ToolFinishes)]_vars

\* a tool that writes was called a second time with the same argument, after
\* a message had been added to the agent's history
C16_Witness ==
    /\ probe.returned # None
    /\ probe.returned.invoked
    /\ probe.returned.tool_func.does = "writes"
    /\ probe.returned.outcome = [success |-> TRUE, size_bytes |-> 1]
    /\ probe.world = 1
    /\ probe.conversation_history # <<>>
    /\ probe.pending # <<>>
    /\ \E e \in probe.log :
          /\ e.tool_name = probe.returned.tool_name
          /\ e.args = 1
          /\ e.repeated

\* C17: get_status and get_trace, for any task id, known or unknown, in any
\* status, change no task, not the set of tasks, the id counter, the workflow
\* history or any agent's history.
C17_ReadsArePure ==
    [][UNCHANGED service
       \/ \A params \in TaskIdParams :
             /\ ~ handle_request(Request("get_status", params))
             /\ ~ handle_request(Request("get_trace", params))]_vars

\* both reads can be asked about a COMPLETED task, a QUEUED task and an id
\* never issued
C17_Witness ==
    \E t, u \in DOMAIN active_reviews :
        /\ Status(t) = "COMPLETED"
        /\ Status(u) = "QUEUED"
        /\ get_review_status_returns(t).status = "COMPLETED"
        /\ get_review_status_returns(u).result = None
        /\ "workflow" \in DOMAIN get_workflow_trace_returns(t)
        /\ get_review_status_returns(task_id_of(MaxTasks + 1))
               = NotFound(task_id_of(MaxTasks + 1))
        /\ ~ ENABLED <<GetStatus \/ GetTrace>>_vars

\* the calls that return in this step
Returning == {c \in 1..Len(calls) : calls[c].pc # "done" /\ calls'[c].pc = "done"}

\* C18: execute_review on a COMPLETED or FAILED task is accepted: the task
\* becomes PROCESSING and a review of the same paper_path starts at its first
\* stage; when that review returns, the task is COMPLETED with the new Review
\* as its result, or FAILED with the new error text.
C18_TerminalTaskReviewedAgain ==
    /\ [](\A t \in DOMAIN active_reviews :
            Status(t) \in Terminal => ENABLED <<execute_review(t)>>_vars)
    /\ [][\A t \in DOMAIN active_reviews :
            (Status(t) \in Terminal /\ execute_review(t)) =>
                /\ Get(active_reviews'[t], "status", NoneStr) = "PROCESSING"
                /\ Len(calls') = Len(calls) + 1
                /\ calls'[Len(calls')].task_id = t
                /\ calls'[Len(calls')].paper_path = active_reviews[t].paper_path
                /\ calls'[Len(calls')].pc = "reader"]_vars
    /\ [][\A c \in Returning :
            LET t == calls[c].task_id
                task == active_reviews'[t]
                response == calls'[c].returned
            IN /\ calls[c].paper_path = active_reviews[t].paper_path
               /\ \/ /\ task.status = "COMPLETED"
                     /\ response.status = "COMPLETED"
                     /\ task.result = response.review
                  \/ /\ task.status = "FAILED"
                     /\ response.status = "FAILED"
                     /\ task.error = response.error]_vars

\* a task that was FAILED has been reviewed again and is COMPLETED with the
\* second call's Review
C18_Witness ==
    \E c, d \in 1..Len(calls) :
        /\ c < d
        /\ calls[c].task_id = calls[d].task_id
        /\ calls[c].pc = "done" /\ calls[d].pc = "done"
        /\ calls[c].returned.status = "FAILED"
        /\ calls[d].returned.status = "COMPLETED"
        /\ Status(calls[d].task_id) = "COMPLETED"
        /\ active_reviews[calls[d].task_id].result = calls[d].returned.review

\* the workflow-history entries appended by the review_paper call c
EntriesOf(c) == SelectSeq(workflow_history, LAMBDA e : e.review = c)

StageAgents == <<"Reader", "MetaReviewer", "Critic">>

\* how often each agent has processed: once per call that reached it
ReaderRuns == Cardinality({c \in 1..Len(calls) : calls[c].pc # "reader"})
MetaReviewerRuns == Cardinality({c \in 1..Len(calls) : Len(EntriesOf(c)) >= 2})
CriticRuns ==
    Cardinality({c \in 1..Len(calls) :
                    calls[c].pc = "done" /\ Len(EntriesOf(c)) >= 2})

\* C19: within one review_paper call the stages run in the order Reader,
\* MetaReviewer, Critic, each once and each after the previous one has
\* returned; the entries the call appends are numbered 1, 2, 3 in that order,
\* a call that returns a Review has appended exactly three, and no earlier
\* entry is modified or removed.
C19_StagesInOrder ==
    /\ [](/\ \A c \in 1..Len(calls) :
               LET entries == EntriesOf(c)
               IN /\ \A i \in 1..Len(entries) :
                        /\ i <= 3
                        /\ entries[i].step = i
                        /\ entries[i].agent = StageAgents[i]
                        /\ entries[i].message.sender = StageAgents[i]
                  /\ calls[c].pc = "reader" => Len(entries) = 0
                  /\ calls[c].pc = "meta" => Len(entries) = 1
                  /\ calls[c].pc = "critic" => Len(entries) = 2
                  /\ (calls[c].pc = "done"
                      /\ calls[c].returned.status = "COMPLETED")
                         => Len(entries) = 3
          /\ Len(conversation_history["Reader"]) = ReaderRuns
          /\ Len(conversation_history["MetaReviewer"]) = MetaReviewerRuns
          /\ Len(conversation_history["Critic"]) = CriticRuns)
    /\ [][/\ Len(workflow_history') >= Len(workflow_history)
          /\ SubSeq(workflow_history', 1, Len(workflow_history))
                 = workflow_history]_vars

\* a review has appended its three entries after an earlier review_paper call
\* raised, the Reader having processed in both
C19_Witness ==
    \E c, d \in 1..Len(calls) :
        /\ d < c
        /\ calls[d].pc = "done" /\ calls[d].returned.status = "FAILED"
        /\ Len(EntriesOf(d)) = 0
        /\ calls[c].pc = "done"
        /\ Len(EntriesOf(c)) = 3
        /\ Len(conversation_history["Reader"]) = 2
        /\ Len(conversation_history["Critic"]) = 1

\* C20: when a review completes, get_workflow_report reports total_steps = 3
\* with the agents Reader, MetaReviewer, Critic, all three entries being of
\* that review, also when the Orchestrator has run other reviews before.
C20_ReportOfOneReview ==
    [][\A c \in Returning :
          calls'[c].returned.status = "COMPLETED" =>
              /\ get_workflow_report'.total_steps = 3
              /\ get_workflow_report'.agents_involved = StageAgents
              /\ get_workflow_trace_returns(calls[c].task_id)'.workflow.total_steps = 3
              /\ \A i \in 1..Len(workflow_history') :
                     workflow_history'[i].review = c]_vars

\* the agent whose process call returns when the call c leaves the stage pc
StageAgent(pc) ==
    IF pc = "reader" THEN "Reader"
    ELSE IF pc = "meta" THEN "MetaReviewer" ELSE "Critic"

\* C21: each agent's history is append-only: every process call of Reader (on
\* its success path and on its failure path), MetaReviewer and Critic appends
\* one Message to that agent's history and leaves the earlier entries and the
\* other agents' histories unchanged; after n completed review_paper calls
\* each of the three histories has length n.
C21_HistoriesAppendOnly ==
    /\ []((\A c \in 1..Len(calls) :
              calls[c].pc = "done" /\ calls[c].returned.status = "COMPLETED")
          => \A a \in AgentNames : Len(conversation_history[a]) = Len(calls))
    /\ [][\A a \in AgentNames :
            /\ Len(conversation_history'[a]) >= Len(conversation_history[a])
            /\ SubSeq(conversation_history'[a], 1, Len(conversation_history[a]))
                   = conversation_history[a]]_vars
    /\ [][\A c \in 1..Len(calls) :
            calls'[c].pc # calls[c].pc =>
                LET agent == StageAgent(calls[c].pc)
                IN /\ Len(conversation_history'[agent])
                          = Len(conversation_history[agent]) + 1
                   /\ conversation_history'[agent]
                          [Len(conversation_history'[agent])].sender = agent
                   /\ \A a \in AgentNames \ {agent} :
                          conversation_history'[a] = conversation_history[a]]_vars

\* two reviews of a reference that resolves to nothing have completed: the
\* Reader has appended its failure Message twice, the other agents one
\* Message per review
C21_Witness ==
    /\ Len(calls) = 2
    /\ \A c \in 1..Len(calls) :
          calls[c].pc = "done" /\ calls[c].returned.status = "COMPLETED"
    /\ \A a \in AgentNames : Len(conversation_history[a]) = 2
    /\ conversation_history["Reader"][1].tool_calls = <<>>
    /\ conversation_history["Reader"][2].tool_calls = <<>>

\* the category and severity of each issue, in order
IssueKinds(issues) ==
    [i \in DOMAIN issues |-> <<issues[i].category, issues[i].severity>>]

\* the issues the seven checks select, in their fixed order
SelectedKinds(sections, quality_result, citationCount, overallQuality) ==
    LET present(name) == name \in DOMAIN sections /\ sections[name].len > 0
        abstractLength ==
            IF "abstract" \in DOMAIN sections THEN sections["abstract"].len ELSE 0
    IN [i \in 1..Len(quality_result.issues) |-> <<"CLARITY", "MAJOR">>]
       \o (IF present("methodology") THEN <<>> ELSE <<<<"STRUCTURE", "CRITICAL">>>>)
       \o (IF present("conclusion") THEN <<>> ELSE <<<<"STRUCTURE", "CRITICAL">>>>)
       \o (IF citationCount < 10 THEN <<<<"REFERENCES", "MAJOR">>>> ELSE <<>>)
       \o (IF quality_result.metrics.avg_sentence_length > 25 * 100
           THEN <<<<"READABILITY", "MINOR">>>> ELSE <<>>)
       \o (IF abstractLength < 50 THEN <<<<"CONTENT", "MAJOR">>>> ELSE <<>>)
       \o (IF overallQuality = "POOR" THEN <<<<"OVERALL", "CRITICAL">>>> ELSE <<>>)

\* C22: the Critic's issue list is exactly the issues the seven checks select,
\* in the fixed order (CLARITY per quality-tool issue, methodology, conclusion,
\* citations below 10, sentences above 25 words, abstract below 50 characters,
\* POOR quality), and issue_count is the length of the list and the sum of the
\* reported critical, major and minor counts.
C22_CritiqueIsTheSevenChecks ==
    [][\A c \in 1..Len(calls) :
          (calls[c].pc = "critic" /\ calls'[c].pc = "done") =>
              LET sections == Get(calls[c].reader_output, "sections", EmptyDict)
                  full_text == full_text_of(sections)
                  quality_result == analyze_text_quality(full_text)
                  citationCount == extract_citations(full_text).citation_count
                  content == json_loads(
                      workflow_history'[Len(workflow_history')].message.content).value
                  critique == content.critique
                  levels == content.severity_levels
              IN /\ IssueKinds(critique.issues)
                       = SelectedKinds(sections, quality_result, citationCount,
                                       Get(calls[c].assessment, "overall_quality",
                                           NoneStr))
                 /\ \A i \in 1..Len(quality_result.issues) :
                       critique.issues[i].issue = <<quality_result.issues[i]>>
                 /\ critique.issue_count = Len(critique.issues)
                 /\ critique.issue_count
                       = levels.critical + levels.major + levels.minor
                 /\ calls'[c].returned.review.critique = critique]_vars

\* a review whose critique holds two CLARITY issues and the issues of the
\* methodology, conclusion, citation, sentence-length and abstract checks
C22_Witness ==
    \E c \in Returned :
        IssueKinds(calls[c].returned.review.critique.issues)
            = <<<<"CLARITY", "MAJOR">>, <<"CLARITY", "MAJOR">>,
                <<"STRUCTURE", "CRITICAL">>, <<"STRUCTURE", "CRITICAL">>,
                <<"REFERENCES", "MAJOR">>, <<"READABILITY", "MINOR">>,
                <<"CONTENT", "MAJOR">>>>

\* the positions of the issues of one severity in a critique's list
PositionsOf(critique, severity) ==
    IF "issues" \in DOMAIN critique
    THEN {i \in DOMAIN critique.issues : critique.issues[i].severity = severity}
    ELSE {}

\* the recommendations of at most the first 3 issues of one severity
FirstThreeOf(critique, severity) ==
    LET positions == PositionsOf(critique, severity)
        nth(k) == CHOOSE i \in positions :
                      Cardinality({j \in positions : j < i}) = k - 1
    IN [k \in 1..(IF Cardinality(positions) > 3 THEN 3
                  ELSE Cardinality(positions)) |->
           critique.issues[nth(k)].recommendation]

PriorityRank(priority) ==
    IF priority = "HIGH" THEN 1 ELSE IF priority = "MEDIUM" THEN 2 ELSE 3

\* C23: next_steps is never empty and is ordered HIGH, MEDIUM, LOW; a HIGH step
\* is present iff some issue is CRITICAL and lists the recommendations of at
\* most the first 3 of them; a MEDIUM step is present iff some issue is MAJOR
\* and lists at most 3; the LOW formatting step is present iff the quality is
\* EXCELLENT or GOOD; when none qualifies, the list is the single LOW "ready
\* for submission" step.
C23_NextStepsOrdered ==
    probe.next_steps # None =>
        LET steps == probe.next_steps.steps
            quality == QualityOf(probe.assessment)
            critical == PositionsOf(probe.critique, "CRITICAL")
            major == PositionsOf(probe.critique, "MAJOR")
            with(priority) == {i \in DOMAIN steps : steps[i].priority = priority}
            ready == [priority |-> "LOW",
                      action |-> <<"Paper is ready for submission">>]
        IN /\ steps # <<>>
           /\ \A i, j \in DOMAIN steps :
                 i < j => PriorityRank(steps[i].priority)
                              < PriorityRank(steps[j].priority)
           /\ \A i \in DOMAIN steps : steps[i].priority \in {"HIGH", "MEDIUM", "LOW"}
           /\ with("HIGH") # {} <=> critical # {}
           /\ \A i \in with("HIGH") :
                 steps[i].details = FirstThreeOf(probe.critique, "CRITICAL")
           /\ with("MEDIUM") # {} <=> major # {}
           /\ \A i \in with("MEDIUM") :
                 steps[i].details = FirstThreeOf(probe.critique, "MAJOR")
           /\ (\E i \in with("LOW") : steps[i] # ready)
                 <=> quality \in {"EXCELLENT", "GOOD"}
           /\ (critical = {} /\ major = {} /\ quality \notin {"EXCELLENT", "GOOD"})
                 <=> steps = <<ready>>

\* four CRITICAL issues: the HIGH step lists the recommendations of the first
\* three, and the formatting step follows it
C23_Witness ==
    /\ probe.next_steps # None
    /\ Cardinality(PositionsOf(probe.critique, "CRITICAL")) = 4
    /\ Len(probe.next_steps.steps) = 2
    /\ probe.next_steps.steps[1].details
           = <<<<"recommendation ", 1>>, <<"recommendation ", 2>>,
               <<"recommendation ", 3>>>>
    /\ probe.next_steps.steps[2].priority = "LOW"

\* C24: the Reader's summary is built from the abstract when one was found and
\* from the raw text otherwise: the first 300 characters of that source with
\* the ellipsis when the source is longer than 300 characters, and the source
\* itself with no ellipsis when it has at most 300 characters.
C24_SummaryOfSource ==
    \A c \in Returned :
        Resolved(calls[c].paper_path) =>
            LET text == fs[calls[c].paper_path].text
                abstract == extract_sections(text).sections["abstract"]
                source == IF abstract.len > 0 THEN abstract ELSE text
                summary == calls[c].returned.review.reader_extraction.summary
            IN /\ summary.source = (IF abstract.len > 0 THEN "abstract" ELSE "text")
               /\ summary.chars = (IF source.len > 300 THEN 300 ELSE source.len)
               /\ summary.ellipsis = (source.len > 300)

\* the keys of an Assessment
AssessmentKeys ==
    {"novelty_score", "methodology_score", "citation_score",
     "completeness_score", "overall_quality", "average_score",
     "assessment_details"}

\* C25: when the save tool fails during MetaReviewer.process, the stage still
\* returns a Message whose content carries the full Assessment, its tool-call
\* trace has exactly the entries extract_citations and save_review in that
\* order, the second recording that nothing was saved, one Message is appended
\* to the MetaReviewer's history, and the review proceeds to the Critic.
C25_SaveFailureTolerated ==
    [][\A c \in 1..Len(calls) :
          (calls[c].pc = "meta" /\ calls'[c].pc # "meta"
           /\ ~ fs[calls[c].paper_path].savable) =>
              LET sections == Get(calls[c].reader_output, "sections", EmptyDict)
                  message == workflow_history'[Len(workflow_history')].message
                  content == json_loads(message.content)
                  history == conversation_history'["MetaReviewer"]
              IN /\ content.ok
                 /\ DOMAIN content.value.assessment = AssessmentKeys
                 /\ content.value.assessment
                       = assess_quality(sections,
                                        extract_citations(full_text_of(sections)),
                                        calls[c].reader_output)
                 /\ Len(message.tool_calls) = 2
                 /\ message.tool_calls[1].tool = "extract_citations"
                 /\ message.tool_calls[2].tool = "save_review"
                 /\ message.tool_calls[2].output = <<"Saved to ", <<"unknown">>>>
                 /\ Len(history)
                       = Len(conversation_history["MetaReviewer"]) + 1
                 /\ history[Len(history)] = message
                 /\ calls'[c].pc = "critic"
                 /\ calls'[c].assessment = content.value.assessment]_vars

\* a review whose assessment could not be saved has been completed with that
\* assessment
C25_Witness ==
    \E c \in Returned :
        /\ ~ fs[calls[c].paper_path].savable
        /\ Resolved(calls[c].paper_path)
        /\ calls[c].returned.status = "COMPLETED"
        /\ DOMAIN calls[c].returned.review.quality_assessment = AssessmentKeys
        /\ conversation_history["MetaReviewer"][1].tool_calls[2].output
               = <<"Saved to ", <<"unknown">>>>

\* C26: the harness appends one TestResult per test case, in fixture order,
\* with status PASSED, FAILED or ERROR, ERROR exactly when review_paper raised
\* for that case; a fault in one case does not stop the following cases from
\* running; in the aggregate passed + failed + errors = total_tests and the
\* success rate is passed / total_tests, or 0 when no test ran.
C26_OneResultPerTestCase ==
    /\ Len(probe.results) = probe.taken
    /\ \A i \in 1..Len(probe.results) :
          /\ probe.results[i].test_id = probe.test_cases[i].test_id
          /\ probe.results[i].status \in {"PASSED", "FAILED", "ERROR"}
          /\ probe.results[i].status = "ERROR" <=> ~ probe.encodes
    /\ probe.stopped => probe.taken = Len(probe.test_cases)
    /\ probe.metrics # None =>
          LET summary == probe.metrics
          IN /\ summary.total_tests = Len(probe.test_cases)
             /\ summary.passed + summary.failed + summary.errors
                   = summary.total_tests
             /\ summary.success_rate
                   = (IF summary.total_tests = 0 THEN 0
                      ELSE RoundDiv(100 * 100 * summary.passed,
                                    summary.total_tests))

\* C27: when the Reader fails both load and extraction, the Review is fully
\* determined: scores 5, 4, 3, 2 with overall_quality POOR, exactly three
\* CRITICAL issues (methodology, conclusion, overall quality) and two MAJOR
\* issues (citations, abstract), and recommendation MAJOR_REVISIONS_REQUIRED.
C27_UnresolvedReviewDetermined ==
    \A c \in Returned :
        ~ Resolved(calls[c].paper_path) =>
            /\ calls[c].returned.status = "COMPLETED"
            /\ LET review == calls[c].returned.review
                   assessment == review.quality_assessment
                   issues == review.critique.issues
               IN /\ assessment.novelty_score = Points(5)
                  /\ assessment.methodology_score = Points(4)
                  /\ assessment.citation_score = Points(3)
                  /\ assessment.completeness_score = Points(2)
                  /\ assessment.overall_quality = "POOR"
                  /\ [i \in DOMAIN issues |->
                         <<issues[i].severity, issues[i].category>>]
                       = <<<<"CRITICAL", "STRUCTURE">>, <<"CRITICAL", "STRUCTURE">>,
                           <<"MAJOR", "REFERENCES">>, <<"MAJOR", "CONTENT">>,
                           <<"CRITICAL", "OVERALL">>>>
                  /\ issues[1].issue
                       = <<"Methodology section is missing or unclear">>
                  /\ issues[2].issue = <<"Conclusion section is missing">>
                  /\ review.overall_recommendation = "MAJOR_REVISIONS_REQUIRED"

\* the review of a corrupt PDF has returned with five issues
C27_Witness ==
    \E c \in Returned :
        /\ fs[calls[c].paper_path].pdf = "corrupt"
        /\ ~ Resolved(calls[c].paper_path)
        /\ calls[c].returned.review.critique.issue_count = 5
        /\ calls[c].returned.review.quality_assessment.average_score = 350

\* C28: in every Review an assessment of overall_quality POOR comes with the
\* Critic's CRITICAL issue on the overall quality and with recommendation
\* MAJOR_REVISIONS_REQUIRED; REJECT is returned only when overall_quality is
\* FAIR and no issue is CRITICAL.
C28_PoorIsNeverRejected ==
    \A c \in Returned :
        calls[c].returned.status = "COMPLETED" =>
            LET review == calls[c].returned.review
                quality == QualityOf(review.quality_assessment)
                issues == review.critique.issues
                critical == {i \in DOMAIN issues : issues[i].severity = "CRITICAL"}
            IN /\ quality = "POOR" =>
                     /\ \E i \in critical : issues[i].category = "OVERALL"
                     /\ review.overall_recommendation = "MAJOR_REVISIONS_REQUIRED"
               /\ review.overall_recommendation = "REJECT" =>
                     quality = "FAIR" /\ critical = {}

\* a paper that resolves with one of its sections found is POOR and is sent
\* back for major revisions
C28_Witness ==
    \E c \in Returned :
        /\ Resolved(calls[c].paper_path)
        /\ calls[c].returned.review.quality_assessment.overall_quality = "POOR"
        /\ calls[c].returned.review.quality_assessment.completeness_score
               = Points(2) + 3
        /\ calls[c].returned.review.overall_recommendation
               = "MAJOR_REVISIONS_REQUIRED"

\* C29: the result of every COMPLETED task carries, as paper_id, the
\* paper_path the task was submitted with, also when executions of different
\* tasks are suspended at the same time.
C29_ResultOfOwnPaper ==
    \A task_id \in DOMAIN active_reviews :
        active_reviews[task_id].status = "COMPLETED" =>
            active_reviews[task_id].result.paper_id
                = active_reviews[task_id].paper_path

\* two tasks of different papers are COMPLETED, and the second review passed
\* its first step while the first review was suspended
C29_Witness ==
    /\ Len(workflow_history) >= 2
    /\ workflow_history[1].review # workflow_history[2].review
    /\ \E t1, t2 \in DOMAIN active_reviews :
          /\ active_reviews[t1].status = "COMPLETED"
          /\ active_reviews[t2].status = "COMPLETED"
          /\ active_reviews[t1].paper_path # active_reviews[t2].paper_path
          /\ active_reviews[t1].result.paper_id = active_reviews[t1].paper_path
          /\ active_reviews[t2].result.paper_id = active_reviews[t2].paper_path

\* C30: the workflow history is a concatenation of blocks Reader(1),
\* MetaReviewer(2), Critic(3), the three entries of a block coming from the
\* same review, the last block possibly incomplete.
C30_HistoryInBlocks ==
    \A i \in DOMAIN workflow_history :
        /\ workflow_history[i].step = ((i - 1) % 3) + 1
        /\ workflow_history[i].review
               = workflow_history[i - ((i - 1) % 3)].review

=============================================================================
